---- MODULE Spec2Model ----
(***************************************************************************)
(* HydraRoute: the decision engine (AIScaler), the reconciliation          *)
(* controller (HydraRouteReconciler) and the part of the telemetry         *)
(* aggregator (Collector) that feeds them.                                 *)
(*                                                                         *)
(* Units.  Time is counted in minutes.  Scale factors are per-mille        *)
(* integers (1500 is the factor 1.5), confidences are hundredths (50 is    *)
(* 0.5), utilisations are percent, request rate is requests per second.    *)
(* All services live in one namespace, so the key "namespace/service" of   *)
(* the source's maps is the service name.                                  *)
(***************************************************************************)
EXTENDS Integers, Sequences, FiniteSets, TLC

VARIABLES
    now,              \* wall clock, minutes (time.Now())
    config,           \* config.Config as LoadConfig returned it
    ingress,          \* the ingress objects in the cluster, <<>> when there is none
    deployments,      \* the deployments of the namespace, in API list order
    metricsStore,     \* Collector.metricsStore: key -> sequence of snapshots
    nextCollect,      \* time at which the collector's ticker fires next
    cooldownTracker,  \* AIScaler.cooldownTracker: key -> time of last changing decision
    lastDecisions,    \* AIScaler.lastDecisions: key -> last decision
    pass,             \* worker -> position of the reconcile worker inside Reconcile
    lastCall,         \* history: outcome and work item of the last processService call
    lastFactor,       \* history: key -> scale factor behind lastDecisions[key]
    cooldownDir,      \* history: key -> direction of the decision that wrote the cooldown entry
    commits,          \* history: key -> time and direction of the last two committed updates
    isRunning,        \* Collector.isRunning
    stopCh,           \* Collector.stopCh: "open", "closed", or "closed_twice" (the panic)
    startPc,          \* position of the goroutine inside Collector.Start
    ctxDone,          \* the context handed to Start is cancelled
    stopRequested,    \* history: Stop has been called
    cycles,           \* history: time and outcome of the last two collection cycles
    lastAppended,     \* history: key -> the snapshot storeMetrics appended last
    mayFail,          \* cluster: the collection phases whose calls can fail
    lastPhases,       \* history: key -> the phases that failed in the last cycle and the
                      \* bandwidth its nginx phase set
    trainingData,     \* AIScaler.trainingData: the slice, as a window on the appended samples
    appended,         \* history: number of AddTrainingData calls so far
    lastDispatch,     \* history: the last AddTrainingData call launched retrainModel
    pending,          \* retrainModel goroutines launched and not yet running
    model,            \* the LinearModel of the scaler: Weights and IsTrained
    train,            \* position of the running retrainModel goroutine
    observed,         \* history: the flag and weights the last Predict call worked with
    configFile,       \* the configuration file handed to LoadConfig
    loadResult,       \* what the LoadConfig call returned
    aiModel,          \* AIScaler.model as createModel built it, with its members
    predicted,        \* history: the last call of aiModel's Predict and its result
    trainResult,      \* history: the result of the last call of aiModel's Train
    ensembleCall,     \* history: the last call on an ensemble of arbitrary members
    callers           \* goroutine -> its position inside MakeScalingDecision

vars == <<now, config, ingress, deployments, metricsStore, nextCollect, cooldownTracker,
          lastDecisions, pass, lastCall, lastFactor, cooldownDir, commits,
          isRunning, stopCh, startPc, ctxDone, stopRequested, cycles, lastAppended, mayFail,
          lastPhases,
          trainingData, appended, lastDispatch, pending, model, train, observed,
          configFile, loadResult, aiModel, predicted, trainResult, ensembleCall, callers>>

\* The variables the engine and the controller write.
engineVars == <<cooldownTracker, lastDecisions, pass, lastCall, lastFactor, cooldownDir, commits>>

\* The variables of the collector's Start / Stop protocol.
lifecycleVars == <<isRunning, stopCh, startPc, ctxDone, stopRequested>>

\* The phases of a collection and what the last cycle made of them.
phaseVars == <<mayFail, lastPhases>>

\* The training buffer, the model and the goroutines that retrain it.
learningVars == <<trainingData, appended, lastDispatch, pending, model, train, observed>>

\* The components that are exercised on their own.
unitVars == <<configFile, loadResult, aiModel, predicted, trainResult, ensembleCall,
             callers>>

(***************************************************************************)
(* Bounds of the model.                                                    *)
(***************************************************************************)
MaxTime == 6
MaxReplicaBound == 3
\* AddTrainingData calls made on the scaler alone, and made while it retrains.
MaxAppends == 10250
MaxTrainAppends == 200

Services == {"web"}

\* Metric readings the cluster can show: low load, mid load, high CPU,
\* everything high, high CPU with low memory and request rate.
\* bps is the byte rate the nginx statistics report.
MB == 1024 * 1024

Profiles ==
    { [cpu |-> 10, mem |-> 20, rps |-> 5,   err |-> 0, rt |-> 0,    bps |-> 1 * MB],
      [cpu |-> 60, mem |-> 55, rps |-> 50,  err |-> 0, rt |-> 0,    bps |-> 3 * MB],
      [cpu |-> 90, mem |-> 50, rps |-> 40,  err |-> 0, rt |-> 0,    bps |-> 3 * MB],
      [cpu |-> 95, mem |-> 95, rps |-> 500, err |-> 6, rt |-> 1200, bps |-> 20 * MB],
      [cpu |-> 90, mem |-> 20, rps |-> 5,   err |-> 0, rt |-> 0,    bps |-> 1 * MB] }

(***************************************************************************)
(* Configuration (pkg/config).                                             *)
(***************************************************************************)
\* setDefaults: the values a configuration file leaves at zero, in minutes.
DefaultRetentionPeriod == 1440
DefaultScaleUpCooldown == 3
DefaultScaleDownCooldown == 5
DefaultMinReplicas == 1
DefaultMaxReplicas == 10
\* Learning rate and confidence threshold, in thousandths.
DefaultLearningRate == 10
DefaultConfidenceThreshold == 800

setDefaults(cfg) ==
    [cfg EXCEPT
        !.RetentionPeriod   = IF @ = 0 THEN DefaultRetentionPeriod ELSE @,
        !.MinReplicas       = IF @ = 0 THEN DefaultMinReplicas ELSE @,
        !.MaxReplicas       = IF @ = 0 THEN DefaultMaxReplicas ELSE @,
        !.ScaleUpCooldown   = IF @ = 0 THEN DefaultScaleUpCooldown ELSE @,
        !.ScaleDownCooldown = IF @ = 0 THEN DefaultScaleDownCooldown ELSE @,
        !.LearningRate      = IF @ = 0 THEN DefaultLearningRate ELSE @,
        !.ConfidenceThreshold = IF @ = 0 THEN DefaultConfidenceThreshold ELSE @]

\* Variant: the learning rate is not validated.
validateConfig_anyRate(cfg) ==
    /\ ~(cfg.MinReplicas < 1)
    /\ ~(cfg.MaxReplicas < cfg.MinReplicas)
    /\ ~(cfg.ConfidenceThreshold <= 0 \/ cfg.ConfidenceThreshold >= 1000)

\* validateConfig: the checks LoadConfig makes on the replica bounds, the
\* learning rate and the confidence threshold (1000 is 1.0).
validateConfig(cfg) ==
    /\ ~(cfg.MinReplicas < 1)
    /\ ~(cfg.MaxReplicas < cfg.MinReplicas)
    /\ ~(cfg.LearningRate <= 0 \/ cfg.LearningRate >= 1000)
    /\ ~(cfg.ConfidenceThreshold <= 0 \/ cfg.ConfidenceThreshold >= 1000)

\* LoadConfig: defaults, then validation; <<>> when the file is rejected.
LoadConfig(raw) ==
    LET cfg == setDefaults(raw)
    IN  IF validateConfig(cfg) THEN << cfg >> ELSE <<>>

(***************************************************************************)
(* Decision engine (AIScaler).                                             *)
(***************************************************************************)

\* AddTrainingData: the size limit of the training data and the number of
\* samples between two retrainings.
maxSize == 10000
retrainPeriod == 100

\* LinearModel.Train: the length of the weight vector and the least number of
\* samples.
numFeatures == 12
minTrainingData == 10

\* fmt.Sprintf("%.2f", x) of a per-mille value: hundredths, rounded.
Sprintf2(x) == (x + 5) \div 10

\* extractFeatures: the feature vector of a snapshot read at time t.
\* calculateTrend returns 0.0 for every metric.
calculateTrend(serviceName, metricType) == 0

extractFeatures(m, t) ==
    [ CPUUtilization    |-> m.CPUUtilization,
      MemoryUtilization |-> m.MemoryUtilization,
      RequestRate       |-> m.RequestRate,
      ResponseTime      |-> m.ResponseTime,
      ErrorRate         |-> m.ErrorRate,
      TrendCPU          |-> calculateTrend(m.ServiceName, "cpu"),
      TrendMemory       |-> calculateTrend(m.ServiceName, "memory"),
      TrendRequests     |-> calculateTrend(m.ServiceName, "requests") ]

\* LinearModel.heuristicPredict: the product of the three rule multipliers.
\* Each multiplier is kept in tenths, so the product is in per-mille.
heuristicPredict(features) ==
    LET cpuMul == IF features.CPUUtilization > 80 THEN 15
                  ELSE IF features.CPUUtilization < 30 THEN 7 ELSE 10
        memMul == IF features.MemoryUtilization > 80 THEN 13
                  ELSE IF features.MemoryUtilization < 30 THEN 8 ELSE 10
        rpsMul == IF features.RequestRate > 100 THEN 12
                  ELSE IF features.RequestRate < 10 THEN 9 ELSE 10
    IN  cpuMul * memMul * rpsMul

\* LinearModel.Predict on the model NewAIScaler creates (IsTrained = false).
Predict(features) ==
    [ scaleFactor |-> heuristicPredict(features), confidence |-> 50, err |-> FALSE ]

\* What a Predict call produces: factor in thousandths, confidence in
\* hundredths, the error, or the panic that ends the process.
Prediction(scaleFactor, confidence) ==
    [ scaleFactor |-> scaleFactor, confidence |-> confidence, err |-> FALSE, panic |-> FALSE ]

Panic == [ scaleFactor |-> 0, confidence |-> 0, err |-> FALSE, panic |-> TRUE ]

\* createModel: the model of the configured type.  A NeuralNetwork is built
\* with its learning rate only: layers, weights and biases are nil.  The
\* ensemble weights are in tenths.
NewNeuralNetwork ==
    [ kind |-> "neural_network", IsTrained |-> FALSE, HiddenLayer |-> <<>>, Bias2 |-> <<>> ]

NewLinear == [ kind |-> "linear", IsTrained |-> FALSE ]

createModel(cfg) ==
    CASE cfg.ModelType = "neural_network" -> NewNeuralNetwork
      [] cfg.ModelType = "ensemble" ->
            [ kind |-> "ensemble", Models |-> << NewLinear, NewNeuralNetwork >>,
              Weights |-> << 6, 4 >> ]
      [] OTHER -> NewLinear

\* LinearModel.Predict: the heuristic with confidence 0.5 until trained, then
\* 0.5 + 1.5 * sigmoid(weighted sum) with confidence 0.8.  squashed stands for
\* the value the weights give.
LinearModelPredict(lm, features, squashed) ==
    IF ~lm.IsTrained
    THEN Prediction(heuristicPredict(features), 50)
    ELSE Prediction(squashed, 80)

\* NeuralNetwork.Predict: the heuristic with confidence 0.3 until trained.  Then
\* the forward pass: the loop over the hidden layer runs len(HiddenLayer) times,
\* nn.Bias2[0] is an index into Bias2, and the result has confidence 0.9.
NeuralNetworkPredict(nn, features, squashed) ==
    IF ~nn.IsTrained
    THEN Prediction(heuristicPredict(features), 30)
    ELSE IF Len(nn.Bias2) = 0 THEN Panic
    ELSE Prediction(squashed, 90)

RECURSIVE SumOver(_, _)
\* The sum of f[i] over the indices in set.
SumOver(f, set) ==
    IF set = {} THEN 0
    ELSE LET i == CHOOSE x \in set : TRUE IN f[i] + SumOver(f, set \ {i})

\* Variant: the weight of a member that errors stays in the normaliser.
EnsembleCombine_allWeights(results, weights) ==
    LET members == 1..Len(results)
        ok == { i \in members : ~results[i].err }
        totalWeight == SumOver(weights, members)
        weightedSum == SumOver([i \in members |-> results[i].scaleFactor * weights[i]], ok)
        weightedConfidence == SumOver([i \in members |-> results[i].confidence * weights[i]], ok)
    IN  IF \E i \in members : results[i].panic THEN Panic
        ELSE IF ok = {}
        THEN [ scaleFactor |-> 1000, confidence |-> 0, err |-> TRUE, panic |-> FALSE ]
        ELSE Prediction(weightedSum \div totalWeight, weightedConfidence \div totalWeight)

\* EnsembleModel.Predict on the results of its members' Predict calls: the
\* members that return an error are skipped, the others are combined with
\* their weights.  A member that panics takes the call with it.  (The
\* quotients are exact for the values used here.)
EnsembleCombine(results, weights) ==
    LET members == 1..Len(results)
        ok == { i \in members : ~results[i].err }
        totalWeight == SumOver(weights, ok)
        weightedSum == SumOver([i \in members |-> results[i].scaleFactor * weights[i]], ok)
        weightedConfidence == SumOver([i \in members |-> results[i].confidence * weights[i]], ok)
    IN  IF \E i \in members : results[i].panic THEN Panic
        ELSE IF totalWeight = 0
        THEN [ scaleFactor |-> 1000, confidence |-> 0, err |-> TRUE, panic |-> FALSE ]
        ELSE Prediction(weightedSum \div totalWeight, weightedConfidence \div totalWeight)

\* Predict of a model that is not an ensemble.
MemberPredict(m, features, squashed) ==
    IF m.kind = "neural_network"
    THEN NeuralNetworkPredict(m, features, squashed)
    ELSE LinearModelPredict(m, features, squashed)

\* s.model.Predict(features).
ModelPredict(m, features, squashed) ==
    IF m.kind = "ensemble"
    THEN EnsembleCombine([i \in 1..Len(m.Models) |-> MemberPredict(m.Models[i], features, squashed)],
                         m.Weights)
    ELSE MemberPredict(m, features, squashed)

\* LinearModel.Train fails on fewer than 10 samples and on a matrix without
\* inverse; NeuralNetwork.Train sets IsTrained and returns nil.
MemberTrain(m, dataLen, singular) ==
    IF m.kind = "neural_network"
    THEN [ model |-> [m EXCEPT !.IsTrained = TRUE], err |-> FALSE ]
    ELSE IF dataLen < minTrainingData \/ singular
    THEN [ model |-> m, err |-> TRUE ]
    ELSE [ model |-> [m EXCEPT !.IsTrained = TRUE], err |-> FALSE ]

\* EnsembleModel.Train on the errors of its members' Train calls: it fails when
\* the number of errors is the number of members.
EnsembleTrainFails(errs) ==
    Cardinality({ i \in 1..Len(errs) : errs[i] }) = Len(errs)

\* s.model.Train(data).
ModelTrain(m, dataLen, singular) ==
    IF m.kind = "ensemble"
    THEN LET trained == [i \in 1..Len(m.Models) |-> MemberTrain(m.Models[i], dataLen, singular)]
         IN  [ model |-> [m EXCEPT !.Models = [i \in 1..Len(m.Models) |-> trained[i].model]],
               err |-> EnsembleTrainFails([i \in 1..Len(m.Models) |-> trained[i].err]) ]
    ELSE MemberTrain(m, dataLen, singular)

\* No member of the model is trained.
Untrained(m) ==
    IF m.kind = "ensemble" THEN \A i \in 1..Len(m.Models) : ~m.Models[i].IsTrained
    ELSE ~m.IsTrained

\* Variant: the dead band ends at 1.0, so every factor above 1.0 rounds up.
calculateRecommendedReplicas_narrowBand(currentReplicas, scaleFactor) ==
    IF scaleFactor > 1000
    THEN (currentReplicas * scaleFactor + 999) \div 1000
    ELSE IF scaleFactor < 900
         THEN (currentReplicas * scaleFactor) \div 1000
         ELSE currentReplicas

\* Variant: the scale-up product is truncated by the integer conversion
\* instead of being rounded up.
calculateRecommendedReplicas_truncUp(currentReplicas, scaleFactor) ==
    IF scaleFactor > 1100
    THEN (currentReplicas * scaleFactor) \div 1000
    ELSE IF scaleFactor < 900
         THEN (currentReplicas * scaleFactor) \div 1000
         ELSE currentReplicas

\* calculateRecommendedReplicas: ceil above the dead band, floor below it.
calculateRecommendedReplicas(currentReplicas, scaleFactor) ==
    IF scaleFactor > 1100
    THEN (currentReplicas * scaleFactor + 999) \div 1000
    ELSE IF scaleFactor < 900
         THEN (currentReplicas * scaleFactor) \div 1000
         ELSE currentReplicas

\* Variant: the upper bound is not enforced.
applyConstraints_noUpper(replicas, cfg) ==
    IF replicas < cfg.MinReplicas THEN cfg.MinReplicas ELSE replicas

\* Variant: the lower bound is not enforced.
applyConstraints_noLower(replicas, cfg) ==
    IF replicas > cfg.MaxReplicas THEN cfg.MaxReplicas ELSE replicas

\* applyConstraints: clamp to the engine's configured bounds.
applyConstraints(replicas, cfg) ==
    IF replicas < cfg.MinReplicas THEN cfg.MinReplicas
    ELSE IF replicas > cfg.MaxReplicas THEN cfg.MaxReplicas
    ELSE replicas

\* generateReasoning: the thresholds crossed, the factor and the confidence.
generateReasoning(features, scaleFactor, confidence) ==
    LET r1 == IF features.CPUUtilization > 80 THEN <<"high CPU utilization">> ELSE <<>>
        r2 == IF features.MemoryUtilization > 80 THEN <<"high memory utilization">> ELSE <<>>
        r3 == IF features.RequestRate > 100 THEN <<"high request rate">> ELSE <<>>
        r4 == IF features.ErrorRate > 5 THEN <<"elevated error rate">> ELSE <<>>
        r5 == IF features.ResponseTime > 1000 THEN <<"slow response times">> ELSE <<>>
        reasons == r1 \o r2 \o r3 \o r4 \o r5
        text(head) == [ text |-> head, reasons |-> reasons,
                        factor |-> Sprintf2(scaleFactor), confidence |-> confidence ]
    IN  IF Len(reasons) = 0
        THEN IF scaleFactor > 1100 THEN text("AI model recommends scaling up")
             ELSE IF scaleFactor < 900 THEN text("AI model recommends scaling down")
             ELSE [ text |-> "No scaling needed based on current metrics",
                    reasons |-> <<>>, factor |-> 0, confidence |-> 0 ]
        ELSE IF scaleFactor < 1000 THEN text("Scaling down due to")
             ELSE text("Scaling up due to")

\* Variant: the two cooldown tests are joined by "and", so the shorter one governs.
isInCooldown_shorter(key, t, tracker, cfg) ==
    IF key \notin DOMAIN tracker
    THEN FALSE
    ELSE LET lastTime == tracker[key]
             scaleUpCooldown == (t - lastTime) < cfg.ScaleUpCooldown
             scaleDownCooldown == (t - lastTime) < cfg.ScaleDownCooldown
         IN  scaleUpCooldown /\ scaleDownCooldown

\* Variant: only the scale-up cooldown is tested.
isInCooldown_upOnly(key, t, tracker, cfg) ==
    IF key \notin DOMAIN tracker
    THEN FALSE
    ELSE (t - tracker[key]) < cfg.ScaleUpCooldown

\* isInCooldown: an entry exists and either cooldown has not yet elapsed.
isInCooldown(key, t, tracker, cfg) ==
    IF key \notin DOMAIN tracker
    THEN FALSE
    ELSE LET lastTime == tracker[key]
             scaleUpCooldown == (t - lastTime) < cfg.ScaleUpCooldown
             scaleDownCooldown == (t - lastTime) < cfg.ScaleDownCooldown
         IN  scaleUpCooldown \/ scaleDownCooldown

\* The map m with key k set to v (Go: m[k] = v).
MapPut(m, k, v) == [x \in DOMAIN m \cup {k} |-> IF x = k THEN v ELSE m[x]]

\* storeDecision, cooldown part: the entry is written when the decision changes
\* the replica count.
storeDecision(key, decision, tracker) ==
    IF decision.CurrentReplicas # decision.RecommendedReplicas
    THEN MapPut(tracker, key, decision.Timestamp)
    ELSE tracker

\* Variant: a snapshot without observed replicas is answered with nil.
MakeScalingDecision_noneOnZero(metricsData, t, tracker, cfg) ==
    LET key == metricsData.ServiceName
        features == extractFeatures(metricsData, t)
        p == Predict(features)
        currentReplicas == metricsData.CurrentReplicas
        recommendedReplicas ==
            applyConstraints(calculateRecommendedReplicas(currentReplicas, p.scaleFactor), cfg)
    IN  IF isInCooldown(key, t, tracker, cfg) \/ currentReplicas = 0
        THEN [ decision |-> <<>>, err |-> FALSE, scaleFactor |-> 0 ]
        ELSE [ decision |->
                 << [ ServiceName         |-> metricsData.ServiceName,
                      Timestamp           |-> t,
                      CurrentReplicas     |-> currentReplicas,
                      RecommendedReplicas |-> recommendedReplicas,
                      Confidence          |-> p.confidence,
                      Reasoning           |-> generateReasoning(features, p.scaleFactor, p.confidence),
                      Metrics             |-> metricsData ] >>,
               err |-> FALSE,
               scaleFactor |-> p.scaleFactor ]

\* MakeScalingDecision up to the decision it builds: <<>> is nil.
MakeScalingDecision(metricsData, t, tracker, cfg) ==
    LET key == metricsData.ServiceName
        features == extractFeatures(metricsData, t)
        p == Predict(features)
        currentReplicas == IF metricsData.CurrentReplicas = 0 THEN 1
                           ELSE metricsData.CurrentReplicas
        recommendedReplicas ==
            applyConstraints(calculateRecommendedReplicas(currentReplicas, p.scaleFactor), cfg)
    IN  IF isInCooldown(key, t, tracker, cfg)
        THEN [ decision |-> <<>>, err |-> FALSE, scaleFactor |-> 0 ]
        ELSE IF p.err
        THEN [ decision |-> <<>>, err |-> TRUE, scaleFactor |-> 0 ]
        ELSE [ decision |->
                 << [ ServiceName         |-> metricsData.ServiceName,
                      Timestamp           |-> t,
                      CurrentReplicas     |-> currentReplicas,
                      RecommendedReplicas |-> recommendedReplicas,
                      Confidence          |-> p.confidence,
                      Reasoning           |-> generateReasoning(features, p.scaleFactor, p.confidence),
                      Metrics             |-> metricsData ] >>,
               err |-> FALSE,
               scaleFactor |-> p.scaleFactor ]

(***************************************************************************)
(* Telemetry aggregator (Collector).                                       *)
(***************************************************************************)

\* GetMetrics: the history stored under the key; a missing key is the nil slice.
GetMetrics(store, serviceName) ==
    IF serviceName \in DOMAIN store THEN store[serviceName] ELSE <<>>

\* Variant: the first element of the history is returned.
GetLatestMetrics_first(store, serviceName) ==
    LET metrics == GetMetrics(store, serviceName)
    IN  IF Len(metrics) = 0 THEN <<>> ELSE << metrics[1] >>

\* GetLatestMetrics: the last element of the history; <<>> is nil.
GetLatestMetrics(store, serviceName) ==
    LET metrics == GetMetrics(store, serviceName)
    IN  IF Len(metrics) = 0 THEN <<>> ELSE << metrics[Len(metrics)] >>

\* Variant: the snapshot is put in front of the history.
storeMetrics_prepend(store, metrics) ==
    MapPut(store, metrics.ServiceName, << metrics >> \o GetMetrics(store, metrics.ServiceName))

\* storeMetrics: append to the history of the snapshot's key.
storeMetrics(store, metrics) ==
    MapPut(store, metrics.ServiceName, Append(GetMetrics(store, metrics.ServiceName), metrics))

\* Variant: nothing is evicted.
cleanOldMetrics_keepAll(store, t, cfg) == store

\* cleanOldMetrics: keep the snapshots whose timestamp is after the cutoff.
cleanOldMetrics(store, t, cfg) ==
    LET cutoff == t - cfg.RetentionPeriod
    IN  [key \in DOMAIN store |-> SelectSeq(store[key], LAMBDA metric : metric.Timestamp > cutoff)]

\* The service object of the cluster: its selector is a set of <<key, value>> labels.
ServiceObject(name) == [Name |-> name, Selector |-> {<<"app", name>>}]

\* deploymentMatchesService: every selector label of the service is among the
\* deployment's match labels (MatchLabels is <<>> when nil).
deploymentMatchesService(deployment, service) ==
    IF deployment.MatchLabels = <<>>
    THEN FALSE
    ELSE \A label \in service.Selector : label \in deployment.MatchLabels[1]

\* collectDeploymentInfo: the replica fields of a snapshot.  getServiceDeployments
\* is the cluster query for the deployments of the service: listed is TRUE when it
\* returns the matching deployments, FALSE when it returns none.  The observed
\* replica count (Status.Replicas) is taken to have caught up with Spec.Replicas.
collectDeploymentInfo(serviceName, deps, listed) ==
    LET matching == SelectSeq(deps, LAMBDA d : deploymentMatchesService(d, ServiceObject(serviceName)))
    IN  IF listed /\ Len(matching) > 0
        THEN [CurrentReplicas |-> matching[1].Replicas, DesiredReplicas |-> matching[1].Replicas]
        ELSE [CurrentReplicas |-> 0, DesiredReplicas |-> 0]

\* The phases of collectServiceMetrics whose calls can return an error
\* (collectSystemMetrics always returns nil).
Phases == {"resource", "nginx", "deployment"}

\* The snapshot collectServiceMetrics starts from: every reading at its zero value.
NewMetricsData(serviceName, t) ==
    [ Timestamp         |-> t,
      ServiceName       |-> serviceName,
      CPUUtilization    |-> 0,
      MemoryUtilization |-> 0,
      RequestRate       |-> 0,
      ResponseTime      |-> 0,
      ErrorRate         |-> 0,
      NetworkBandwidth  |-> 0,
      IOBandwidth       |-> 0,
      CurrentReplicas   |-> 0,
      DesiredReplicas   |-> 0 ]

\* collectResourceMetrics with a successful pod query.
collectResourceMetrics(metrics, reading) ==
    [metrics EXCEPT !.CPUUtilization = reading.cpu, !.MemoryUtilization = reading.mem]

\* collectNginxMetrics with a successful request: the statistics are mapped
\* into the snapshot, the byte rate converted to MB/s.
collectNginxMetrics(metrics, reading) ==
    [metrics EXCEPT !.RequestRate      = reading.rps,
                    !.ResponseTime     = reading.rt,
                    !.ErrorRate        = reading.err,
                    !.NetworkBandwidth = reading.bps \div (1024 * 1024)]

\* The estimates of the bandwidth phase, in MB/s.
estimateNetworkBandwidth(service) == 10
estimateIOBandwidth(service) == 5

\* collectSystemMetrics: each enabled estimate is assigned to its field.
collectSystemMetrics(metrics, cfg) ==
    LET net == IF cfg.EnableNetworkBandwidth
               THEN [metrics EXCEPT !.NetworkBandwidth = estimateNetworkBandwidth(metrics.ServiceName)]
               ELSE metrics
    IN  IF cfg.EnableIOBandwidth
        THEN [net EXCEPT !.IOBandwidth = estimateIOBandwidth(metrics.ServiceName)]
        ELSE net

\* The phases collectServiceMetrics runs under the configuration.
PhasesRun(cfg) ==
    {"resource", "deployment"} \cup (IF cfg.NginxMetricsURL # "" THEN {"nginx"} ELSE {})

\* The snapshot after the nginx phase of collectServiceMetrics; failed is the
\* set of phases whose call returns an error.
AfterNginxPhase(serviceName, t, reading, failed, cfg) ==
    LET m0 == NewMetricsData(serviceName, t)
        m1 == IF "resource" \in failed THEN m0 ELSE collectResourceMetrics(m0, reading)
    IN  IF cfg.NginxMetricsURL # "" /\ "nginx" \notin failed
        THEN collectNginxMetrics(m1, reading)
        ELSE m1

\* Variant: the error of a phase is returned to collectMetrics.
collectServiceMetrics_failOnPhaseError(serviceName, t, reading, deps, listed, failed, cfg) ==
    LET m2 == AfterNginxPhase(serviceName, t, reading, failed, cfg)
        m3 == IF cfg.EnableNetworkBandwidth \/ cfg.EnableIOBandwidth
              THEN collectSystemMetrics(m2, cfg)
              ELSE m2
        info == collectDeploymentInfo(serviceName, deps, listed)
        m4 == IF "deployment" \in failed THEN m3
              ELSE [m3 EXCEPT !.CurrentReplicas = info.CurrentReplicas,
                              !.DesiredReplicas = info.DesiredReplicas]
    IN  [metrics |-> m4, err |-> failed \cap PhasesRun(cfg) # {}]

\* collectServiceMetrics: the snapshot built for one service at time t, from the
\* readings the cluster shows.  The error of a phase is logged and the next
\* phase runs; the snapshot is returned with a nil error.
collectServiceMetrics(serviceName, t, reading, deps, listed, failed, cfg) ==
    LET m2 == AfterNginxPhase(serviceName, t, reading, failed, cfg)
        m3 == IF cfg.EnableNetworkBandwidth \/ cfg.EnableIOBandwidth
              THEN collectSystemMetrics(m2, cfg)
              ELSE m2
        info == collectDeploymentInfo(serviceName, deps, listed)
        m4 == IF "deployment" \in failed THEN m3
              ELSE [m3 EXCEPT !.CurrentReplicas = info.CurrentReplicas,
                              !.DesiredReplicas = info.DesiredReplicas]
    IN  [metrics |-> m4, err |-> FALSE]

(***************************************************************************)
(* Reconciliation controller (HydraRouteReconciler).                       *)
(***************************************************************************)
\* RequeueAfter, in seconds.
RequeueAfter == 30

\* Variant: the controller is built with two reconcile workers.
MaxConcurrentReconciles_two == 1 + 1

\* The controller is built without options: the controller runtime runs one
\* reconcile worker (MaxConcurrentReconciles defaults to 1), and its work queue
\* never hands the same ingress to two workers at once.
MaxConcurrentReconciles == 1

Workers == 1..MaxConcurrentReconciles

HydraRouteAnnotation == "hydra-route.ai/enabled"
HydraRouteMinReplicasAnnotation == "hydra-route.ai/min-replicas"
HydraRouteMaxReplicasAnnotation == "hydra-route.ai/max-replicas"

\* Variant: an ingress without the annotation is taken to be enabled.
isHydraRouteEnabled_missingIsEnabled(ing) ==
    IF HydraRouteAnnotation \notin DOMAIN ing.Annotations
    THEN TRUE
    ELSE ing.Annotations[HydraRouteAnnotation] = "true"

\* isHydraRouteEnabled: the enabled annotation exists and is "true".
isHydraRouteEnabled(ing) ==
    IF HydraRouteAnnotation \notin DOMAIN ing.Annotations
    THEN FALSE
    ELSE ing.Annotations[HydraRouteAnnotation] = "true"

\* findServiceDeployment: index of the first listed deployment that matches the
\* service, 0 when none does.
findServiceDeployment(serviceName, deps) ==
    LET hits == {i \in 1..Len(deps) : deploymentMatchesService(deps[i], ServiceObject(serviceName))}
    IN  IF hits = {} THEN 0 ELSE CHOOSE i \in hits : \A j \in hits : i <= j

\* Variant: the update changes the replica count and leaves the annotations.
applyScalingDecision_noStamp(decision, deps, cfg, t, api) ==
    LET i == findServiceDeployment(decision.ServiceName, deps)
    IN  IF api = "get_error"
        THEN [err |-> "find", updated |-> FALSE, deps |-> deps]
        ELSE IF i = 0
        THEN [err |-> "no_deployment", updated |-> FALSE, deps |-> deps]
        ELSE IF cfg.DryRun
        THEN [err |-> "none", updated |-> FALSE, deps |-> deps]
        ELSE IF api = "update_error"
        THEN [err |-> "update", updated |-> FALSE, deps |-> deps]
        ELSE [err |-> "none", updated |-> TRUE,
              deps |-> [deps EXCEPT ![i].Replicas = decision.RecommendedReplicas]]

\* Variant: the dry-run switch is not consulted.
applyScalingDecision_ignoreDryRun(decision, deps, cfg, t, api) ==
    LET i == findServiceDeployment(decision.ServiceName, deps)
    IN  IF api = "get_error"
        THEN [err |-> "find", updated |-> FALSE, deps |-> deps]
        ELSE IF i = 0
        THEN [err |-> "no_deployment", updated |-> FALSE, deps |-> deps]
        ELSE IF api = "update_error"
        THEN [err |-> "update", updated |-> FALSE, deps |-> deps]
        ELSE [err |-> "none", updated |-> TRUE,
              deps |-> [deps EXCEPT
                  ![i].Replicas = decision.RecommendedReplicas,
                  ![i].Annotations =
                      [ lastScaled  |-> << t >>,
                        scaleReason |-> << decision.Reasoning >>,
                        confidence  |-> << decision.Confidence >> ]]]

\* applyScalingDecision: api is the outcome of the cluster calls ("ok",
\* "get_error" for the service/deployment reads, "update_error" for the update).
applyScalingDecision(decision, deps, cfg, t, api) ==
    LET i == findServiceDeployment(decision.ServiceName, deps)
    IN  IF api = "get_error"
        THEN [err |-> "find", updated |-> FALSE, deps |-> deps]
        ELSE IF i = 0
        THEN [err |-> "no_deployment", updated |-> FALSE, deps |-> deps]
        ELSE IF cfg.DryRun
        THEN [err |-> "none", updated |-> FALSE, deps |-> deps]
        ELSE IF api = "update_error"
        THEN [err |-> "update", updated |-> FALSE, deps |-> deps]
        ELSE [err |-> "none", updated |-> TRUE,
              deps |-> [deps EXCEPT
                  ![i].Replicas = decision.RecommendedReplicas,
                  ![i].Annotations =
                      [ lastScaled  |-> << t >>,
                        scaleReason |-> << decision.Reasoning >>,
                        confidence  |-> << decision.Confidence >> ]]]

\* processService: what one call does to the engine and the cluster.
processService(serviceName, t, store, tracker, deps, cfg, api) ==
    LET latest == GetLatestMetrics(store, serviceName)
        made == MakeScalingDecision(latest[1], t, tracker, cfg)
        decision == made.decision[1]
        applied == applyScalingDecision(decision, deps, cfg, t, api)
        same == [tracker |-> tracker, deps |-> deps, decision |-> <<>>,
                 scaleFactor |-> 0, event |-> FALSE, updated |-> FALSE]
    IN  IF latest = <<>>
        THEN same @@ [result |-> "no_metrics"]
        ELSE IF made.err
        THEN same @@ [result |-> "predict_error"]
        ELSE IF made.decision = <<>>
        THEN same @@ [result |-> "cooldown"]
        ELSE LET stored == [same EXCEPT !.tracker = storeDecision(serviceName, decision, tracker),
                                        !.decision = made.decision,
                                        !.scaleFactor = made.scaleFactor]
             IN  IF decision.CurrentReplicas = decision.RecommendedReplicas
                 THEN stored @@ [result |-> "no_change"]
                 ELSE IF applied.err # "none"
                 THEN stored @@ [result |-> applied.err]
                 ELSE [stored EXCEPT !.deps = applied.deps, !.event = TRUE,
                                     !.updated = applied.updated]
                      @@ [result |-> IF applied.updated THEN "committed" ELSE "dry_run"]

(***************************************************************************)
(* Initial states: a loaded configuration, an ingress, the deployments of  *)
(* the namespace; empty engine and aggregator.                             *)
(***************************************************************************)
EmptyMap == [x \in {} |-> 0]

\* A configuration file: replica bounds, dry run and collection interval as
\* given, the nginx statistics endpoint set, bandwidth monitoring off, everything
\* else left to the defaults.
ConfigFile(min, max, dryRun, interval) ==
    [ MinReplicas |-> min, MaxReplicas |-> max, DryRun |-> dryRun,
      CollectionInterval |-> interval, RetentionPeriod |-> 0,
      ScaleUpCooldown |-> 0, ScaleDownCooldown |-> 0,
      NginxMetricsURL |-> "http://nginx:10254",
      EnableNetworkBandwidth |-> FALSE, EnableIOBandwidth |-> FALSE,
      EnableOnlineLearning |-> FALSE,
      LearningRate |-> 0, ConfidenceThreshold |-> 0, ModelType |-> "" ]

\* A configuration file that names the model type.
ModelConfigFile(modelType) ==
    [ ConfigFile(0, 0, FALSE, MaxTime + 1) EXCEPT !.ModelType = modelType ]

\* Factors a trained model can give: the ends and the middle of [0.5, 2.0].
SquashedFactors == {500, 1250, 2000}

\* A configuration file that sets the replica bounds, the learning rate and the
\* confidence threshold.
ValidatedConfigFile(min, max, rate, threshold) ==
    [ ConfigFile(min, max, FALSE, MaxTime + 1) EXCEPT !.LearningRate = rate,
                                                      !.ConfidenceThreshold = threshold ]

\* The values a file may give for the rate and the threshold: negative, unset,
\* inside (0, 1), 1.0 and above.
RateValues == {-10, 0, 10, 500, 1000, 1500}

\* A configuration file that sets the online learning switch of the model.
LearningConfigFile(enable) ==
    [ ConfigFile(0, 0, FALSE, MaxTime + 1) EXCEPT !.EnableOnlineLearning = enable ]

\* A configuration file that sets the metrics sources: the nginx endpoint ("" is
\* the unset field) and the two bandwidth switches.
SourcesConfigFile(url, network, io, interval) ==
    [ ConfigFile(0, 0, FALSE, interval) EXCEPT !.NginxMetricsURL = url,
                                                !.EnableNetworkBandwidth = network,
                                                !.EnableIOBandwidth = io ]

\* A configuration file that sets the collection interval and the retention
\* period and leaves the scaling section to the defaults.
CollectorConfigFile(interval, retention) ==
    [ ConfigFile(0, 0, FALSE, interval) EXCEPT !.RetentionPeriod = retention ]

Loaded(files) == { LoadConfig(f)[1] : f \in { g \in files : LoadConfig(g) # <<>> } }

\* Annotation sets an ingress may carry.
AnnotationSets ==
    { EmptyMap,
      (HydraRouteAnnotation :> "false"),
      (HydraRouteAnnotation :> "true"),
      (HydraRouteAnnotation :> "true") @@ (HydraRouteMinReplicasAnnotation :> "2"),
      (HydraRouteAnnotation :> "true") @@ (HydraRouteMaxReplicasAnnotation :> "2") }

\* An ingress with the given annotations whose paths name the given backends.
IngressTo(annotations, backends) == [Annotations |-> annotations, Backends |-> backends]

Ingress(annotations) == IngressTo(annotations, <<"web">>)

NoAnnotations == [lastScaled |-> <<>>, scaleReason |-> <<>>, confidence |-> <<>>]

Deployment(name, app, replicas) ==
    [ Name |-> name, MatchLabels |-> << {<<"app", app>>} >>,
      Replicas |-> replicas, Annotations |-> NoAnnotations ]

NoCall == [result |-> "none", event |-> FALSE, item |-> 0]

\* make([]TrainingData, 0): a window of length 0 on the samples appended so far.
\* The k-th element of the slice is sample number first + k - 1, the samples
\* being numbered in the order of their AddTrainingData calls.
NoSamples == [first |-> 1, len |-> 0]

\* &LinearModel{Config: ...}: nil weights, not trained.
NewLinearModel == [Weights |-> <<>>, IsTrained |-> FALSE]

\* No retrainModel goroutine is running; version counts the weight vectors
\* Train has computed.
NoTraining == [pc |-> "idle", i |-> 0, dataLen |-> 0, version |-> 0]

NoPrediction == [called |-> FALSE, trained |-> FALSE, weights |-> <<>>]

\* Two goroutines that call the engine, and one that has not called it yet.
Goroutines == {1, 2}

NotCalling == [pc |-> "idle", metricsData |-> <<>>, decision |-> <<>>]

\* Predict has not been called on the model.
NotPredicted == [called |-> FALSE, untrained |-> TRUE, features |-> <<>>, out |-> <<>>]

\* No call has been made on an ensemble of arbitrary members.
NoEnsembleCall == [op |-> "none", results |-> <<>>, out |-> <<>>]

\* LoadConfig has not been called on the file.
NotLoaded == [called |-> FALSE, config |-> <<>>]

\* A worker that has not run Reconcile, or whose Reconcile returned ctrl.Result{}.
NoPass == [active |-> FALSE, item |-> 0, todo |-> <<>>, processed |-> <<>>, requeueAfter |-> 0]

\* The objects main constructs: empty collector store, empty engine maps.
InitObjects(configs, ingresses, deploymentLists) ==
    /\ now = 0
    /\ config \in configs
    /\ ingress \in ingresses
    /\ deployments \in deploymentLists
    /\ metricsStore = EmptyMap
    /\ nextCollect = 0
    /\ cooldownTracker = EmptyMap
    /\ lastDecisions = EmptyMap
    /\ pass = [w \in Workers |-> NoPass]
    /\ lastCall = NoCall
    /\ lastFactor = EmptyMap
    /\ cooldownDir = EmptyMap
    /\ commits = EmptyMap
    /\ cycles = <<>>
    /\ lastAppended = EmptyMap
    /\ lastPhases = EmptyMap
    /\ trainingData = NoSamples
    /\ appended = 0
    /\ lastDispatch = FALSE
    /\ pending = 0
    /\ model = NewLinearModel
    /\ train = NoTraining
    /\ observed = NoPrediction
    /\ loadResult = NotLoaded
    /\ aiModel = createModel(config)
    /\ predicted = NotPredicted
    /\ trainResult = "none"
    /\ ensembleCall = NoEnsembleCall
    /\ callers = [c \in Goroutines |-> NotCalling]

\* main has launched the collector: its goroutine is inside Start, past the
\* isRunning check and about to run the initial collection.

InitWith(configs, ingresses, deploymentLists) ==
    /\ mayFail = {}
    /\ configFile = <<>>
    /\ isRunning = TRUE
    /\ stopCh = "open"
    /\ startPc = "initial"
    /\ ctxDone = FALSE
    /\ stopRequested = FALSE
    /\ InitObjects(configs, ingresses, deploymentLists)

\* The controller with the default replica floor, with and without dry run,
\* collecting every 5 minutes, in front of every kind of ingress.
Init ==
    InitWith(Loaded({ ConfigFile(0, MaxReplicaBound, d, 5) : d \in BOOLEAN }),
             {<<>>} \cup { << Ingress(a) >> : a \in AnnotationSets },
             {<<>>} \cup { << Deployment("web-deploy", "web", r) >> : r \in {2, MaxReplicaBound + 1} })

\* The engine under every replica-bound configuration, behind a participating
\* ingress without overrides or no ingress at all; one collection within the
\* horizon.
InitEngine ==
    InitWith(Loaded({ ConfigFile(min, max, FALSE, MaxTime + 1) :
                        min \in 0..MaxReplicaBound, max \in 0..MaxReplicaBound }),
             { <<>>, << Ingress(HydraRouteAnnotation :> "true") >> },
             { << Deployment("web-deploy", "web", r) >> : r \in 0..(MaxReplicaBound + 1) })

\* The collector as NewCollector returns it, not yet started, collecting every
\* 2 minutes and keeping snapshots for one of the given retention periods.
InitCollectorWith(retentions) ==
    /\ mayFail = {}
    /\ configFile = <<>>
    /\ isRunning = FALSE
    /\ stopCh = "open"
    /\ startPc = "idle"
    /\ ctxDone = FALSE
    /\ stopRequested = FALSE
    /\ InitObjects(Loaded({ CollectorConfigFile(2, r) : r \in retentions }),
                   { << Ingress(HydraRouteAnnotation :> "true") >> },
                   { << Deployment("web-deploy", "web", 2) >> })

\* Retention shorter than the interval (one snapshot is kept) and longer than it
\* (two are kept).
InitCollector == InitCollectorWith({1, 3})

\* Retention shorter than the interval.
InitCollectorShort == InitCollectorWith({1})

\* Two ingresses that route to the same service, the first one over two paths;
\* the second one participates or not.  The namespace has no deployment, one
\* deployment of the service, or two of them, listed in either order.  One
\* collection within the horizon.
InitQueue ==
    InitWith(Loaded({ ConfigFile(0, MaxReplicaBound, FALSE, MaxTime + 1) }),
             { << IngressTo(HydraRouteAnnotation :> "true", <<"web", "", "web">>),
                  IngressTo(HydraRouteAnnotation :> e, <<"web">>) >> : e \in {"true", "false"} },
             { <<>>,
               << Deployment("web-deploy", "web", 2) >>,
               << Deployment("web-a", "web", 2), Deployment("web-b", "web", 2) >>,
               << Deployment("web-b", "web", 2), Deployment("web-a", "web", 2) >> })

\* The collector under every setting of its metrics sources, in a cluster where
\* every phase can fail; collections at the start and at the horizon.
InitSources ==
    /\ mayFail = Phases
    /\ configFile = <<>>
    /\ isRunning = TRUE
    /\ stopCh = "open"
    /\ startPc = "initial"
    /\ ctxDone = FALSE
    /\ stopRequested = FALSE
    /\ InitObjects(Loaded({ SourcesConfigFile(url, network, io, MaxTime) :
                              url \in {"", "http://nginx:10254"},
                              network \in BOOLEAN, io \in BOOLEAN }),
                   { << Ingress(HydraRouteAnnotation :> "true") >> },
                   { << Deployment("web-deploy", "web", 2) >> })

\* The scaler as NewAIScaler returns it, with the given settings of online
\* learning; the collector is not started.
InitScaler(enables) ==
    /\ mayFail = {}
    /\ isRunning = FALSE
    /\ stopCh = "open"
    /\ startPc = "idle"
    /\ ctxDone = FALSE
    /\ stopRequested = FALSE
    /\ InitObjects(Loaded({ LearningConfigFile(e) : e \in enables }),
                   { << Ingress(HydraRouteAnnotation :> "true") >> },
                   { << Deployment("web-deploy", "web", 2) >> })

InitLearning(enables) == configFile = <<>> /\ InitScaler(enables)

InitBuffer == InitLearning(BOOLEAN)

\* The scaler under each model type the configuration can name (the empty and
\* the unknown type give the linear model).
InitModels ==
    /\ mayFail = {}
    /\ configFile = <<>>
    /\ isRunning = FALSE
    /\ stopCh = "open"
    /\ startPc = "idle"
    /\ ctxDone = FALSE
    /\ stopRequested = FALSE
    /\ InitObjects(Loaded({ ModelConfigFile(t) :
                              t \in {"", "linear", "neural_network", "ensemble"} }),
                   { << Ingress(HydraRouteAnnotation :> "true") >> },
                   { << Deployment("web-deploy", "web", 2) >> })

\* A configuration file on disk, before the process reads it: its replica bounds
\* are below, at and above the least legal value.
InitConfig ==
    /\ InitScaler({FALSE})
    /\ configFile \in { << ValidatedConfigFile(min, max, rate, threshold) >> :
                           min \in (-1)..MaxReplicaBound, max \in (-1)..MaxReplicaBound,
                           rate \in RateValues, threshold \in RateValues }

InitTraining == InitLearning({TRUE})

(***************************************************************************)
(* Actions.                                                                *)
(***************************************************************************)

\* close(stopCh) on a closed channel has panicked: the process is gone.
panicked == stopCh = "closed_twice"

\* Variant: Start returns when a collection cycle fails.
StartAfterCollect_returnOnError(err) == IF err THEN "returned" ELSE "loop"

\* Start after a call of collectMetrics: the error is logged and the select loop
\* is entered (again).
StartAfterCollect(err) == "loop"

\* The clock advances.  The initial collection of Start and a collection whose
\* tick is due take place (or Start returns) before it advances further.
Tick ==
    /\ now < MaxTime
    /\ startPc # "initial"
    /\ startPc = "loop" => now < nextCollect
    /\ now' = now + 1
    /\ UNCHANGED <<config, ingress, deployments, metricsStore, nextCollect, engineVars,
                   lifecycleVars, cycles, lastAppended, phaseVars,
                   learningVars, unitVars>>

\* The last two entries of a history.
LastTwo(seq) == IF Len(seq) > 2 THEN SubSeq(seq, Len(seq) - 1, Len(seq)) ELSE seq

RECURSIVE StoreAll(_, _, _)
\* The loop of collectMetrics over the listed services: a service whose
\* collectServiceMetrics returns an error is skipped.
StoreAll(store, todo, resultOf) ==
    IF todo = {} THEN store
    ELSE LET s == CHOOSE x \in todo : TRUE
             next == IF resultOf[s].err THEN store
                     ELSE storeMetrics(store, resultOf[s].metrics)
         IN  StoreAll(next, todo \ {s}, resultOf)

\* collectMetrics: the collection cycle run by Start at its start and on every
\* tick of its ticker.  A failed service listing returns before anything is
\* stored or evicted.
collectMetrics ==
    /\ \/ startPc = "initial"
       \/ startPc = "loop" /\ now = nextCollect
    /\ nextCollect' = IF startPc = "initial" THEN now + config.CollectionInterval
                      ELSE nextCollect + config.CollectionInterval
    /\ \E listOk \in BOOLEAN :
         /\ startPc' = StartAfterCollect(~listOk)
         /\ cycles' = LastTwo(Append(cycles, [ts |-> now, ok |-> listOk]))
         /\ IF ~listOk
            THEN UNCHANGED <<metricsStore, lastAppended, lastPhases>>
            ELSE \E reading \in [Services -> Profiles], listed \in [Services -> BOOLEAN],
                    failed \in [Services -> SUBSET mayFail] :
                   LET resultOf == [s \in Services |->
                           collectServiceMetrics(s, now, reading[s], deployments, listed[s],
                                                 failed[s], config)]
                       stored == { s \in Services : ~resultOf[s].err }
                       nginxSet(s) ==
                           IF config.NginxMetricsURL # "" /\ "nginx" \notin failed[s]
                           THEN << AfterNginxPhase(s, now, reading[s], failed[s], config).NetworkBandwidth >>
                           ELSE <<>>
                   IN  /\ metricsStore' =
                           cleanOldMetrics(StoreAll(metricsStore, Services, resultOf), now, config)
                       /\ lastAppended' = [k \in DOMAIN lastAppended \cup stored |->
                                              IF k \in stored THEN resultOf[k].metrics
                                              ELSE lastAppended[k]]
                       /\ lastPhases' = [k \in DOMAIN lastPhases \cup Services |->
                                            IF k \in Services
                                            THEN [failed |-> failed[k] \cap PhasesRun(config),
                                                  nginxBandwidth |-> nginxSet(k)]
                                            ELSE lastPhases[k]]
    /\ UNCHANGED <<now, config, ingress, deployments, engineVars, isRunning, stopCh, ctxDone,
                   stopRequested, mayFail, learningVars, unitVars>>

\* A call of Start, made when no earlier call is still executing.  With
\* isRunning set it returns an error at once; else it sets isRunning and goes on
\* to the initial collection (the ticker's first tick is one interval away).
Start ==
    /\ ~panicked
    /\ startPc \in {"idle", "returned"}
    /\ IF isRunning
       THEN UNCHANGED <<isRunning, startPc>>
       ELSE isRunning' = TRUE /\ startPc' = "initial"
    /\ UNCHANGED <<now, config, ingress, deployments, metricsStore, nextCollect, engineVars,
                   stopCh, ctxDone, stopRequested, cycles, lastAppended, phaseVars,
                   learningVars, unitVars>>

\* A call of Stop: nothing when isRunning is unset; else close(stopCh), which
\* panics on a closed channel, and isRunning is unset.
Stop ==
    /\ ~panicked
    /\ IF ~isRunning
       THEN UNCHANGED <<isRunning, stopCh, startPc>>
       ELSE IF stopCh = "closed"
            THEN stopCh' = "closed_twice" /\ startPc' = "returned" /\ UNCHANGED isRunning
            ELSE stopCh' = "closed" /\ isRunning' = FALSE /\ UNCHANGED startPc
    /\ stopRequested' = TRUE
    /\ UNCHANGED <<now, config, ingress, deployments, metricsStore, nextCollect, engineVars,
                   ctxDone, cycles, lastAppended, phaseVars,
                   learningVars, unitVars>>

\* The context handed to Start is cancelled.
Cancel ==
    /\ ~panicked
    /\ ~ctxDone
    /\ ctxDone' = TRUE
    /\ UNCHANGED <<now, config, ingress, deployments, metricsStore, nextCollect, engineVars,
                   isRunning, stopCh, startPc, stopRequested, cycles, lastAppended, phaseVars,
                   learningVars, unitVars>>

\* Variant: the select of Start has no case for the context.
StartReturn_ignoreCtx ==
    /\ startPc = "loop"
    /\ stopCh = "closed"
    /\ startPc' = "returned"
    /\ UNCHANGED <<now, config, ingress, deployments, metricsStore, nextCollect, engineVars,
                   isRunning, stopCh, ctxDone, stopRequested, cycles, lastAppended, phaseVars,
                   learningVars, unitVars>>

\* The select of Start takes the ctx.Done() or the stopCh case: Start returns.
\* isRunning keeps its value.
StartReturn ==
    /\ startPc = "loop"
    /\ ctxDone \/ stopCh = "closed"
    /\ startPc' = "returned"
    /\ UNCHANGED <<now, config, ingress, deployments, metricsStore, nextCollect, engineVars,
                   isRunning, stopCh, ctxDone, stopRequested, cycles, lastAppended, phaseVars,
                   learningVars, unitVars>>

\* The non-empty backend service names of an ingress, in path order.
Backends(ing) == SelectSeq(ing.Backends, LAMBDA n : n # "")

\* The work item (ingress) i is being reconciled by some worker.
InFlight(i) == \E w \in Workers : pass[w].active /\ pass[w].item = i

\* Reconcile up to its loop: a free worker takes a work item that no other
\* worker holds, fetches the ingress, checks participation, and lines up the
\* backend service of every path.
ReconcileStart ==
    \E w \in Workers, i \in 1..Len(ingress) :
        /\ ~pass[w].active
        /\ ~InFlight(i)
        /\ isHydraRouteEnabled(ingress[i])
        /\ Backends(ingress[i]) # <<>>
        /\ pass' = [pass EXCEPT ![w] = [active |-> TRUE, item |-> i,
                                        todo |-> Backends(ingress[i]),
                                        processed |-> <<>>, requeueAfter |-> 0]]
        /\ UNCHANGED <<now, config, ingress, deployments, metricsStore, nextCollect, cooldownTracker,
                       lastDecisions, lastCall, lastFactor, cooldownDir, commits,
                       lifecycleVars, cycles, lastAppended, phaseVars,
                   learningVars, unitVars>>

\* Reconcile of an absent or non-participating ingress: returns ctrl.Result{}
\* at once.
ReconcileSkip ==
    \E w \in Workers :
        /\ ~pass[w].active
        /\ \/ ingress = <<>>
           \/ \E i \in 1..Len(ingress) : ~InFlight(i) /\ ~isHydraRouteEnabled(ingress[i])
        /\ pass' = [pass EXCEPT ![w] = NoPass]
        /\ lastCall' = [result |-> "skipped", event |-> FALSE, item |-> 0]
        /\ UNCHANGED <<now, config, ingress, deployments, metricsStore, nextCollect, cooldownTracker,
                       lastDecisions, lastFactor, cooldownDir, commits,
                       lifecycleVars, cycles, lastAppended, phaseVars,
                   learningVars, unitVars>>

Direction(decision) ==
    IF decision.RecommendedReplicas > decision.CurrentReplicas THEN "up" ELSE "down"

\* processService returned an error.
IsError(result) == result \in {"predict_error", "find", "no_deployment", "update"}

\* Variant: Reconcile gives up the remaining backends when a service fails.
ReconcileAfterService_returnOnError(err, rest) == IF err THEN <<>> ELSE rest

\* Reconcile after a call of processService: an error is logged and the loop
\* goes on with the remaining backends.
ReconcileAfterService(err, rest) == rest

\* One iteration of Reconcile's loop: processService for the next backend; after
\* the last backend the pass returns ctrl.Result{RequeueAfter: RequeueAfter}.
ProcessService ==
    \E w \in Workers :
        /\ pass[w].active
        /\ \E api \in {"ok", "get_error", "update_error"} :
             LET serviceName == Head(pass[w].todo)
                 r == processService(serviceName, now, metricsStore, cooldownTracker,
                                     deployments, config, api)
                 changing == r.decision # <<>> /\
                             r.decision[1].CurrentReplicas # r.decision[1].RecommendedReplicas
                 rest == ReconcileAfterService(IsError(r.result), Tail(pass[w].todo))
                 processed == Append(pass[w].processed, [service |-> serviceName, result |-> r.result])
             IN  /\ cooldownTracker' = r.tracker
                 /\ deployments' = r.deps
                 /\ lastDecisions' = IF r.decision = <<>> THEN lastDecisions
                                     ELSE MapPut(lastDecisions, serviceName, r.decision[1])
                 /\ lastFactor' = IF r.decision = <<>> THEN lastFactor
                                  ELSE MapPut(lastFactor, serviceName, r.scaleFactor)
                 /\ cooldownDir' = IF changing
                                   THEN MapPut(cooldownDir, serviceName, Direction(r.decision[1]))
                                   ELSE cooldownDir
                 /\ commits' = IF r.updated
                               THEN MapPut(commits, serviceName,
                                        LastTwo(Append(IF serviceName \in DOMAIN commits
                                                       THEN commits[serviceName] ELSE <<>>,
                                                       [ts |-> now, dir |-> Direction(r.decision[1])])))
                               ELSE commits
                 /\ lastCall' = [result |-> r.result, event |-> r.event, item |-> pass[w].item]
                 /\ pass' = [pass EXCEPT ![w] =
                                IF rest = <<>>
                                THEN [active |-> FALSE, item |-> pass[w].item, todo |-> <<>>,
                                      processed |-> processed, requeueAfter |-> RequeueAfter]
                                ELSE [pass[w] EXCEPT !.todo = rest, !.processed = processed]]
        /\ UNCHANGED <<now, config, ingress, metricsStore, nextCollect,
                       lifecycleVars, cycles, lastAppended, phaseVars,
                   learningVars, unitVars>>

Next ==
    \/ Tick
    \/ collectMetrics
    \/ ReconcileStart
    \/ ReconcileSkip
    \/ ProcessService

Spec == Init /\ [][Next]_vars

SpecEngine == InitEngine /\ [][Next]_vars

\* The controller's work queue with two ingresses.
SpecQueue == InitQueue /\ [][Next]_vars

\* The collector on its own, with the calls of its Start / Stop interface.
\* Variant: the slice is never cut.
TrimToMax_never(buf) == buf

\* AddTrainingData, the size limit: the last maxSize elements are kept.
TrimToMax(buf) ==
    IF buf.len > maxSize
    THEN [first |-> buf.first + (buf.len - maxSize), len |-> maxSize]
    ELSE buf

\* AddTrainingData, under the scaler's lock: append, cut to maxSize, and launch
\* retrainModel when online learning is on and the length is a multiple of 100.
AddTrainingData(limit) ==
    /\ appended < limit
    /\ LET grown == [trainingData EXCEPT !.len = @ + 1]
           kept == TrimToMax(grown)
           dispatch == config.EnableOnlineLearning /\ kept.len % retrainPeriod = 0
       IN  /\ trainingData' = kept
           /\ appended' = appended + 1
           /\ lastDispatch' = dispatch
           /\ pending' = IF dispatch THEN pending + 1 ELSE pending
    /\ UNCHANGED <<now, config, ingress, deployments, metricsStore, nextCollect, engineVars,
                   lifecycleVars, cycles, lastAppended, phaseVars, model, train, observed, unitVars>>

\* The parts of the state retrainModel and Predict leave alone.
learningFrame ==
    <<now, config, ingress, deployments, metricsStore, nextCollect, engineVars,
      lifecycleVars, cycles, lastAppended, phaseVars, trainingData, appended, lastDispatch,
      unitVars>>

\* retrainModel starts: it copies the training data under the read lock.  The
\* launched goroutines are taken to run one after the other.
retrainModel ==
    /\ pending > 0
    /\ train.pc = "idle"
    /\ pending' = pending - 1
    /\ train' = [train EXCEPT !.pc = "train", !.dataLen = trainingData.len]
    /\ UNCHANGED <<learningFrame, model, observed>>

\* LinearModel.Train returns an error: too few samples, or the matrix of the
\* samples has no inverse.  Nothing of the model has been written.
TrainFail ==
    /\ train.pc = "train"
    /\ \E singular \in BOOLEAN :
         /\ train.dataLen < minTrainingData \/ singular
         /\ train' = [train EXCEPT !.pc = "idle"]
    /\ UNCHANGED <<learningFrame, pending, model, observed>>

\* LinearModel.Train has computed the weights: lm.Weights = make([]float64,
\* numFeatures), a vector of zeros.
TrainAllocate ==
    /\ train.pc = "train"
    /\ train.dataLen >= minTrainingData
    /\ model' = [model EXCEPT !.Weights = [k \in 1..numFeatures |-> 0]]
    /\ train' = [train EXCEPT !.pc = "fill", !.i = 0, !.version = @ + 1]
    /\ UNCHANGED <<learningFrame, pending, observed>>

\* One iteration of the loop that copies the computed weights into lm.Weights.
\* The weights of the n-th vector Train computes are written as n.
TrainFill ==
    /\ train.pc = "fill"
    /\ train.i < numFeatures
    /\ model' = [model EXCEPT !.Weights[train.i + 1] = train.version]
    /\ train' = [train EXCEPT !.i = @ + 1]
    /\ UNCHANGED <<learningFrame, pending, observed>>

\* After the loop: lm.IsTrained = true, Train returns nil, retrainModel ends.
TrainReturn ==
    /\ train.pc = "fill"
    /\ train.i = numFeatures
    /\ model' = [model EXCEPT !.IsTrained = TRUE]
    /\ train' = [train EXCEPT !.pc = "idle"]
    /\ UNCHANGED <<learningFrame, pending, observed>>

\* LinearModel.Predict, called by MakeScalingDecision without a lock: it reads
\* IsTrained and, when set, the weights as they are at that moment.
PredictCall ==
    /\ observed' = [called |-> TRUE, trained |-> model.IsTrained,
                    weights |-> IF model.IsTrained THEN model.Weights ELSE <<>>]
    /\ UNCHANGED <<learningFrame, pending, model, train>>

\* Samples are added to the scaler.
NextBuffer ==
    AddTrainingData(MaxAppends)

SpecBuffer == InitBuffer /\ [][NextBuffer]_vars

\* Samples are added while decisions are predicted and the launched goroutines
\* retrain the model.
NextTraining ==
    \/ AddTrainingData(MaxTrainAppends)
    \/ retrainModel
    \/ TrainFail
    \/ TrainAllocate
    \/ TrainFill
    \/ TrainReturn
    \/ PredictCall

SpecTraining == InitTraining /\ [][NextTraining]_vars

\* The parts of the state the calls on a model leave alone.
modelFrame ==
    <<now, config, ingress, deployments, metricsStore, nextCollect, engineVars,
      lifecycleVars, cycles, lastAppended, phaseVars, learningVars, configFile, loadResult,
      callers>>

\* The feature vectors of the readings.
FeatureVectors ==
    { extractFeatures(collectNginxMetrics(collectResourceMetrics(NewMetricsData("web", 0), p), p), 0) :
        p \in Profiles }

\* A call of s.model.Predict, as MakeScalingDecision makes it.  After a panic
\* the process is gone.
PredictModel ==
    /\ ~(predicted.called /\ predicted.out.panic)
    /\ \E features \in FeatureVectors, squashed \in SquashedFactors :
         predicted' = [ called |-> TRUE, untrained |-> Untrained(aiModel),
                        features |-> features,
                        out |-> ModelPredict(aiModel, features, squashed) ]
    /\ UNCHANGED <<modelFrame, aiModel, trainResult, ensembleCall>>

\* A call of s.model.Train, as retrainModel makes it, on few or many samples.
TrainModel ==
    /\ ~(predicted.called /\ predicted.out.panic)
    /\ \E dataLen \in {minTrainingData - 1, retrainPeriod}, singular \in BOOLEAN :
         LET r == ModelTrain(aiModel, dataLen, singular)
         IN  /\ aiModel' = r.model
             /\ trainResult' = IF r.err THEN "error" ELSE "trained"
    /\ UNCHANGED <<modelFrame, predicted, ensembleCall>>

NextModels ==
    \/ PredictModel
    \/ TrainModel

SpecModels == InitModels /\ [][NextModels]_vars

\* What the Predict of a member of an ensemble can return: an error, or a
\* factor with a confidence.
MemberResults ==
    { [ scaleFactor |-> 1000, confidence |-> 0, err |-> TRUE, panic |-> FALSE ] }
        \cup { Prediction(f, c) : f \in {500, 1000, 1500, 2340}, c \in {30, 50, 80, 90} }

\* EnsembleModel.Predict on an ensemble of two members with the weights
\* createModel gives, whatever the members return.
EnsemblePredict ==
    /\ \E results \in [1..2 -> MemberResults] :
         ensembleCall' = [ op |-> "predict", results |-> results,
                           out |-> EnsembleCombine(results, << 6, 4 >>) ]
    /\ UNCHANGED <<modelFrame, aiModel, predicted, trainResult>>

\* EnsembleModel.Train on an ensemble of two members, whatever the members
\* return.
EnsembleTrain ==
    /\ \E errs \in [1..2 -> BOOLEAN] :
         ensembleCall' = [ op |-> "train", results |-> errs,
                           out |-> EnsembleTrainFails(errs) ]
    /\ UNCHANGED <<modelFrame, aiModel, predicted, trainResult>>

NextEnsemble ==
    \/ EnsemblePredict
    \/ EnsembleTrain

SpecEnsemble == InitLearning({FALSE}) /\ [][NextEnsemble]_vars

\* The parts of the state a MakeScalingDecision call leaves alone.
decisionFrame ==
    <<now, config, ingress, deployments, metricsStore, nextCollect, pass, lastCall,
      lastFactor, cooldownDir, commits, lifecycleVars, cycles, lastAppended, phaseVars,
      learningVars, configFile, loadResult, aiModel, predicted, trainResult, ensembleCall>>

\* The snapshots handed to MakeScalingDecision: each reading on 2 replicas.
Snapshots ==
    { collectServiceMetrics("web", 0, p, << Deployment("web-deploy", "web", 2) >>, TRUE, {},
                            config).metrics : p \in Profiles }

\* MakeScalingDecision, first part: isInCooldown reads the cooldown map under the
\* read lock and releases it.  In cooldown the call returns nil.
DecideGate(c) ==
    /\ callers[c].pc = "idle"
    /\ \E metricsData \in Snapshots :
         callers' = [callers EXCEPT ![c] =
             IF isInCooldown(metricsData.ServiceName, now, cooldownTracker, config)
             THEN [pc |-> "returned", metricsData |-> << metricsData >>, decision |-> <<>>]
             ELSE [pc |-> "gated", metricsData |-> << metricsData >>, decision |-> <<>>]]
    /\ UNCHANGED <<decisionFrame, cooldownTracker, lastDecisions>>

\* MakeScalingDecision past the gate: the decision is computed from the
\* snapshot alone, and storeDecision writes it and the cooldown entry under the
\* write lock.
DecideStore(c) ==
    /\ callers[c].pc = "gated"
    /\ LET metricsData == callers[c].metricsData[1]
           made == MakeScalingDecision(metricsData, now, EmptyMap, config)
           key == metricsData.ServiceName
       IN  /\ callers' = [callers EXCEPT ![c].pc = "returned", ![c].decision = made.decision]
           /\ cooldownTracker' = storeDecision(key, made.decision[1], cooldownTracker)
           /\ lastDecisions' = MapPut(lastDecisions, key, made.decision[1])
    /\ UNCHANGED decisionFrame

\* Goroutines call MakeScalingDecision for the same service at the same time.
NextDecide ==
    \/ \E c \in Goroutines : DecideGate(c)
    \/ \E c \in Goroutines : DecideStore(c)

SpecDecide == InitLearning({FALSE}) /\ [][NextDecide]_vars

\* main calls LoadConfig on the file: the configuration, or an error (<<>>).
LoadConfigCall ==
    /\ configFile # <<>>
    /\ ~loadResult.called
    /\ loadResult' = [called |-> TRUE, config |-> LoadConfig(configFile[1])]
    /\ UNCHANGED <<now, config, ingress, deployments, metricsStore, nextCollect, engineVars,
                   lifecycleVars, cycles, lastAppended, phaseVars, learningVars, configFile,
                   aiModel, predicted, trainResult, ensembleCall, callers>>

NextConfig ==
    LoadConfigCall

SpecConfig == InitConfig /\ [][NextConfig]_vars

NextCollector ==
    \/ Tick
    \/ collectMetrics
    \/ Start
    \/ Stop
    \/ Cancel
    \/ StartReturn

SpecCollector == InitCollector /\ [][NextCollector]_vars

\* The collector goroutine alone, past its start.
NextSources ==
    \/ Tick
    \/ collectMetrics

SpecSources == InitSources /\ [][NextSources]_vars

\* Go's scheduler runs a goroutine that can take a step: the initial collection
\* happens, and a select with a ready case is taken.
SpecCollectorFair ==
    InitCollectorShort /\ [][NextCollector]_vars
        /\ WF_vars(collectMetrics) /\ WF_vars(StartReturn)

(***************************************************************************)
(* Properties.                                                             *)
(***************************************************************************)

\* The step is one call of processService (ProcessService is the only action
\* that changes the pass of a worker that is inside Reconcile).
IsProcessServiceStep == \E w \in Workers : pass[w].active /\ pass'[w] # pass[w]

\* The service that call is for.
StepService ==
    Head(pass[CHOOSE w \in Workers : pass[w].active /\ pass'[w] # pass[w]].todo)

\* The cooldown that applies after an action of the given direction.
CooldownFor(dir) == IF dir = "up" THEN config.ScaleUpCooldown ELSE config.ScaleDownCooldown

\* C1: every decision MakeScalingDecision returned, whatever the snapshot
\* (currentReplicas = 0 included), the factor and the earlier calls, recommends
\* a replica count between the configured MinReplicas and MaxReplicas.
C1_DecisionWithinBounds ==
    \A key \in DOMAIN lastDecisions :
        /\ config.MinReplicas <= lastDecisions[key].RecommendedReplicas
        /\ lastDecisions[key].RecommendedReplicas <= config.MaxReplicas

\* A decision for a snapshot without observed replicas whose projection went
\* above MaxReplicas and was brought back to it.
C1_Witness ==
    \E key \in DOMAIN lastDecisions :
        /\ lastDecisions[key].Metrics.CurrentReplicas = 0
        /\ lastFactor[key] > 2000
        /\ config.MaxReplicas = 2
        /\ lastDecisions[key].RecommendedReplicas = config.MaxReplicas

\* The integer an annotation value spells.
Atoi(str) == CASE str = "1" -> 1 [] str = "2" -> 2 [] str = "3" -> 3 [] str = "4" -> 4

\* Effective bounds of an ingress: its annotations where present, else the defaults.
EffectiveMin(ing) ==
    IF HydraRouteMinReplicasAnnotation \in DOMAIN ing.Annotations
    THEN Atoi(ing.Annotations[HydraRouteMinReplicasAnnotation])
    ELSE config.MinReplicas

EffectiveMax(ing) ==
    IF HydraRouteMaxReplicasAnnotation \in DOMAIN ing.Annotations
    THEN Atoi(ing.Annotations[HydraRouteMaxReplicasAnnotation])
    ELSE config.MaxReplicas

\* C2: the decisions produced by the passes of an ingress are clamped to its
\* effective bounds: the min-replicas / max-replicas annotations where the ingress
\* carries them, the process-wide defaults otherwise.
C2_EffectiveBoundsHonoured ==
    ingress # <<>> =>
        \A key \in DOMAIN lastDecisions :
            /\ EffectiveMin(ingress[1]) <= lastDecisions[key].RecommendedReplicas
            /\ lastDecisions[key].RecommendedReplicas <= EffectiveMax(ingress[1])

\* C3: while the cooldown of the recorded direction has not elapsed since the
\* last replica-changing decision for a target, a further call for the target
\* returns none, updates no workload and does not write the cooldown entry.
C3_CooldownBlocksRedecision ==
    [][ \A key \in DOMAIN cooldownTracker :
          ( /\ IsProcessServiceStep
            /\ StepService = key
            /\ GetLatestMetrics(metricsStore, key) # <<>>
            /\ now - cooldownTracker[key] < CooldownFor(cooldownDir[key]) )
          => /\ lastCall'.result = "cooldown"
             /\ cooldownTracker' = cooldownTracker
             /\ lastDecisions' = lastDecisions
             /\ deployments' = deployments ]_vars

\* A call was answered with none for the very snapshot of the changing decision
\* that started the cooldown, within that decision's cooldown.
C3_Witness ==
    /\ lastCall.result = "cooldown"
    /\ "web" \in DOMAIN cooldownTracker
    /\ lastDecisions["web"].Timestamp = cooldownTracker["web"]
    /\ lastDecisions["web"].CurrentReplicas # lastDecisions["web"].RecommendedReplicas
    /\ GetLatestMetrics(metricsStore, "web") = << lastDecisions["web"].Metrics >>
    /\ now > cooldownTracker["web"]
    /\ now - cooldownTracker["web"] < CooldownFor(cooldownDir["web"])

\* C4: the gate is direction-specific: a call for a target whose cooldown entry
\* records its last committed action is answered with none exactly while
\* now - lastTs is below the cooldown of the recorded direction.
C4_DirectionSpecificGate ==
    [][ \A key \in DOMAIN cooldownTracker :
          ( /\ IsProcessServiceStep
            /\ StepService = key
            /\ GetLatestMetrics(metricsStore, key) # <<>>
            /\ key \in DOMAIN commits
            /\ commits[key][Len(commits[key])].ts = cooldownTracker[key] )
          => ( lastCall'.result = "cooldown"
               <=> now - cooldownTracker[key] < CooldownFor(cooldownDir[key]) ) ]_vars

\* C5: two consecutive committed updates of a target are at least the cooldown
\* of the first one's direction apart.
C5_CommitsSpacedByCooldown ==
    \A key \in DOMAIN commits :
        Len(commits[key]) = 2 =>
            commits[key][2].ts - commits[key][1].ts >= CooldownFor(commits[key][1].dir)

\* A scale-down commit followed by a second commit.
C5_Witness ==
    \E key \in DOMAIN commits :
        /\ Len(commits[key]) = 2
        /\ commits[key][1].dir = "down"
        /\ commits[key][2].ts - commits[key][1].ts = config.ScaleDownCooldown

\* C6: with dry_run = true no step changes any deployment (replicas or annotations).
C6_DryRunNeverUpdates ==
    [][ config.DryRun => deployments' = deployments ]_vars

\* A dry-run pass reached the point where it would have scaled a deployment.
C6_Witness ==
    /\ config.DryRun
    /\ lastCall.result = "dry_run"
    /\ "web" \in DOMAIN lastDecisions
    /\ lastDecisions["web"].CurrentReplicas # lastDecisions["web"].RecommendedReplicas

\* C7: with dry_run = true the engine's cooldown map stays empty.
C7_DryRunNoCooldownEntry ==
    config.DryRun => DOMAIN cooldownTracker = {}

\* C8: a cooldown entry is recorded only after the update has succeeded: the
\* entry of a target is the time of its last committed update.
C8_CooldownOnlyAfterCommit ==
    ~config.DryRun =>
        \A key \in DOMAIN cooldownTracker :
            /\ key \in DOMAIN commits
            /\ commits[key][Len(commits[key])].ts = cooldownTracker[key]

InDeadBand(factor) == 900 <= factor /\ factor <= 1100

\* C9 as claimed: a decision whose factor lies in the dead band recommends the
\* current replica count, for every current count and every bounds.
C9_DeadBandKeepsCurrent ==
    \A key \in DOMAIN lastDecisions :
        InDeadBand(lastFactor[key]) =>
            lastDecisions[key].RecommendedReplicas = lastDecisions[key].CurrentReplicas

\* C9 as amended: a decision whose factor lies in the dead band recommends the
\* current replica count clamped to the bounds: the current count itself when
\* it lies within them, else the bound it violates.
C9_DeadBandKeepsClampedCurrent ==
    \A key \in DOMAIN lastDecisions :
        InDeadBand(lastFactor[key]) =>
            LET d == lastDecisions[key]
            IN  /\ (config.MinReplicas <= d.CurrentReplicas /\ d.CurrentReplicas <= config.MaxReplicas)
                      => d.RecommendedReplicas = d.CurrentReplicas
                /\ d.CurrentReplicas < config.MinReplicas => d.RecommendedReplicas = config.MinReplicas
                /\ d.CurrentReplicas > config.MaxReplicas => d.RecommendedReplicas = config.MaxReplicas

\* A dead-band decision with a factor other than 1.0 that kept the current count.
C9_Witness ==
    \E key \in DOMAIN lastDecisions :
        /\ lastFactor[key] = 1080
        /\ lastDecisions[key].CurrentReplicas = 2
        /\ lastDecisions[key].RecommendedReplicas = 2

\* project(c, f) of the claim: c in the dead band, ceil(c*f) above, floor(c*f) below.
Project(c, f) ==
    IF InDeadBand(f) THEN c
    ELSE IF f > 1100
         THEN CHOOSE n \in 0..(3 * c + 1) : n * 1000 >= c * f /\ (n - 1) * 1000 < c * f
         ELSE CHOOSE n \in 0..c : n * 1000 <= c * f /\ (n + 1) * 1000 > c * f

Clamp(n, lo, hi) == IF n < lo THEN lo ELSE IF n > hi THEN hi ELSE n

\* C10: the recommended count is clamp(project(c, factor), min, max), c being
\* the snapshot's currentReplicas with 0 replaced by 1; the clamp comes after
\* the rounding.
C10_RecommendedIsClampedProjection ==
    \A key \in DOMAIN lastDecisions :
        LET d == lastDecisions[key]
            c == IF d.Metrics.CurrentReplicas = 0 THEN 1 ELSE d.Metrics.CurrentReplicas
        IN  d.RecommendedReplicas =
                Clamp(Project(c, lastFactor[key]), config.MinReplicas, config.MaxReplicas)

\* A snapshot without replicas and a factor below 0.9: the floor is 0 and the
\* decision ends at MinReplicas.
C10_Witness ==
    \E key \in DOMAIN lastDecisions :
        /\ lastDecisions[key].Metrics.CurrentReplicas = 0
        /\ lastFactor[key] < 900
        /\ Project(1, lastFactor[key]) = 0
        /\ lastDecisions[key].RecommendedReplicas = config.MinReplicas

\* C11: every scale factor a predictor returned lies strictly between 0.5 and
\* 2.0; the reading CPU 95, memory 95, 500 requests per second gives at most 2.0.
C11_FactorWithinSquashRange ==
    \A key \in DOMAIN lastFactor : 500 < lastFactor[key] /\ lastFactor[key] < 2000

\* C12: a pass that finds the snapshot of the target's last committed update
\* unchanged commits nothing, however long after that update it runs.
C12_UnchangedSnapshotNoSecondCommit ==
    [][ \A key \in DOMAIN commits :
          ( /\ IsProcessServiceStep
            /\ StepService = key
            /\ lastDecisions[key].Timestamp = commits[key][Len(commits[key])].ts
            /\ GetLatestMetrics(metricsStore, key) = << lastDecisions[key].Metrics >> )
          => commits' = commits ]_vars

NoReplicasObserved(key) ==
    /\ GetLatestMetrics(metricsStore, key) # <<>>
    /\ GetLatestMetrics(metricsStore, key)[1].CurrentReplicas = 0

\* C14 as claimed: a call for a snapshot without observed replicas returns none
\* and leaves the cooldown entries alone.
C14_NoReplicasReturnsNone ==
    [][ ( /\ IsProcessServiceStep
          /\ NoReplicasObserved(StepService) )
        => /\ lastCall'.result = "cooldown"
           /\ lastDecisions' = lastDecisions
           /\ cooldownTracker' = cooldownTracker ]_vars

\* C14 as amended: a call for a snapshot without observed replicas, outside the
\* cooldown, returns a decision that takes the current count to be 1, and a
\* decision that changes that count writes the cooldown entry.
C14_NoReplicasDecidesFromOne ==
    [][ LET key == StepService
        IN  ( /\ IsProcessServiceStep
              /\ NoReplicasObserved(key)
              /\ ~isInCooldown(key, now, cooldownTracker, config) )
            => /\ key \in DOMAIN lastDecisions'
               /\ lastDecisions'[key].Timestamp = now
               /\ lastDecisions'[key].CurrentReplicas = 1
               /\ lastDecisions'[key].RecommendedReplicas # 1
                     => (key \in DOMAIN cooldownTracker' /\ cooldownTracker'[key] = now) ]_vars

\* A decision for a snapshot without observed replicas that changed the count
\* and started the cooldown.
C14_Witness ==
    \E key \in DOMAIN lastDecisions :
        /\ lastDecisions[key].Metrics.CurrentReplicas = 0
        /\ lastDecisions[key].CurrentReplicas = 1
        /\ lastDecisions[key].RecommendedReplicas = 2
        /\ key \in DOMAIN cooldownTracker
        /\ cooldownTracker[key] = lastDecisions[key].Timestamp

\* A call of Start is executing.
StartInFlight == startPc \in {"initial", "loop"}

\* C19: once the context is cancelled a call of Start that is executing
\* eventually returns, and while no call of Start is executing no snapshot is
\* appended to any history.
C19_StartReturnsOnCancel ==
    /\ (ctxDone /\ StartInFlight) ~> ~StartInFlight
    /\ [][ ~StartInFlight => metricsStore' = metricsStore ]_vars

\* Start has collected, the context was cancelled while Stop was never called,
\* and Start has returned.
C19_Witness ==
    /\ ctxDone
    /\ stopCh = "open"
    /\ startPc = "returned"
    /\ Len(cycles) = 2
    /\ "web" \in DOMAIN metricsStore
    /\ Len(metricsStore["web"]) = 1

\* The snapshots held in the history of a key.
Held(key) == { metricsStore[key][i] : i \in 1..Len(metricsStore[key]) }

\* C15 as claimed: in every state every snapshot held in a history has
\* timestamp >= now - retentionPeriod.
C15_RetentionAtAllTimes ==
    \A key \in DOMAIN metricsStore :
        \A m \in Held(key) : m.Timestamp >= now - config.RetentionPeriod

\* C15 as amended: every snapshot held in a history is younger than the
\* retention period at the time of the last completed collection cycle (the
\* time of the key's last appended snapshot).
C15_RetentionAtLastCycle ==
    \A key \in DOMAIN metricsStore :
        \A m \in Held(key) :
            /\ key \in DOMAIN lastAppended
            /\ m.Timestamp > lastAppended[key].Timestamp - config.RetentionPeriod

\* Two completed cycles of which the first one's snapshot has been evicted.
C15_Witness ==
    /\ Len(cycles) = 2
    /\ cycles[1].ok /\ cycles[2].ok
    /\ cycles[1].ts < cycles[2].ts
    /\ Held("web") # {}
    /\ \A m \in Held("web") : m.Timestamp # cycles[1].ts

\* C16: every history is non-decreasing in timestamp.
C16_HistoryOrdered ==
    \A key \in DOMAIN metricsStore :
        \A i, j \in 1..Len(metricsStore[key]) :
            i < j => metricsStore[key][i].Timestamp <= metricsStore[key][j].Timestamp

\* A history of two snapshots of different cycles, the older of which was
\* collected after the collector's first minutes.
C16_Witness ==
    /\ "web" \in DOMAIN metricsStore
    /\ Len(metricsStore["web"]) = 2
    /\ metricsStore["web"][1].Timestamp >= 2
    /\ metricsStore["web"][1].Timestamp < metricsStore["web"][2].Timestamp

\* C17: GetLatestMetrics returns the snapshot appended last for the key when
\* the history still holds it, and nil when the key was never collected or
\* its history is empty.
C17_LatestIsLastAppended ==
    \A key \in Services \cup {"never-collected"} :
        GetLatestMetrics(metricsStore, key) =
            IF key \in DOMAIN lastAppended /\ lastAppended[key] \in Held(key)
            THEN << lastAppended[key] >>
            ELSE <<>>

\* A history of two different snapshots: the later one is returned.
C17_Witness ==
    /\ "web" \in DOMAIN metricsStore
    /\ Len(metricsStore["web"]) = 2
    /\ metricsStore["web"][1] # metricsStore["web"][2]
    /\ GetLatestMetrics(metricsStore, "web") = << metricsStore["web"][2] >>
    /\ GetLatestMetrics(metricsStore, "never-collected") = <<>>

\* C18: no call of Stop fails, whatever calls of Start and Stop came before: the
\* stop channel is never closed twice.
C18_StopNeverFails ==
    ~panicked

Participates(ing) ==
    \E k \in DOMAIN ing.Annotations : k = "hydra-route.ai/enabled" /\ ing.Annotations[k] = "true"

\* C23: an ingress participates iff its enabled annotation is "true": the passes
\* of an ingress without the annotation or with another value make no decision,
\* update no workload and record no cooldown, and no pass of a participating
\* ingress is skipped.
C23_OnlyEnabledParticipates ==
    /\ (Len(ingress) = 1 /\ ~Participates(ingress[1])) =>
          /\ lastCall.result \in {"none", "skipped"}
          /\ \A w \in Workers : ~pass[w].active
          /\ lastDecisions = EmptyMap
          /\ cooldownTracker = EmptyMap
          /\ commits = EmptyMap
          /\ \A i \in 1..Len(deployments) : deployments[i].Annotations = NoAnnotations
    /\ lastCall.result = "skipped" =>
          \E i \in 0..Len(ingress) : i = 0 \/ ~Participates(ingress[i])

\* A pass of an ingress whose annotation is "false" was skipped although a
\* snapshot of its backend was available.
C23_Witness ==
    /\ Len(ingress) = 1
    /\ HydraRouteAnnotation \in DOMAIN ingress[1].Annotations
    /\ ingress[1].Annotations[HydraRouteAnnotation] = "false"
    /\ lastCall.result = "skipped"
    /\ GetLatestMetrics(metricsStore, "web") # <<>>
    /\ deployments # <<>>

\* The deployments whose match labels select the service, by index.
Backing(key) ==
    { i \in 1..Len(deployments) :
        deployments[i].MatchLabels # <<>> /\ <<"app", key>> \in deployments[i].MatchLabels[1] }

\* C24: in a pass without dry run an update is issued only for a changing
\* decision whose workload was found, and always for one unless a cluster call
\* fails; a successful update sets the replicas of the first backing deployment
\* to RecommendedReplicas and stamps the three annotations; every other call
\* leaves the deployments as they are.
C24_UpdateExactlyOnChange ==
    [][ (IsProcessServiceStep /\ ~config.DryRun) =>
          LET key == StepService
              res == lastCall'.result
              decided == res \in {"no_change", "find", "no_deployment", "update", "committed"}
              d == lastDecisions'[key]
              i == CHOOSE j \in Backing(key) : \A k \in Backing(key) : j <= k
          IN  /\ decided => (key \in DOMAIN lastDecisions' /\ d.Timestamp = now)
              /\ res \in {"committed", "update"} =>
                    (d.RecommendedReplicas # d.CurrentReplicas /\ Backing(key) # {})
              /\ res = "committed" =>
                    deployments' = [deployments EXCEPT
                        ![i].Replicas = d.RecommendedReplicas,
                        ![i].Annotations = [ lastScaled  |-> << now >>,
                                             scaleReason |-> << d.Reasoning >>,
                                             confidence  |-> << d.Confidence >> ]]
              /\ res # "committed" => deployments' = deployments
              /\ (decided /\ d.RecommendedReplicas = d.CurrentReplicas) <=> res = "no_change"
              /\ (decided /\ d.RecommendedReplicas # d.CurrentReplicas /\ Backing(key) # {}
                    /\ res \notin {"find", "update"}) => res = "committed" ]_vars

\* A committed update that changed the replica count of the deployment and
\* stamped it.
C24_Witness ==
    /\ ~config.DryRun
    /\ lastCall.result = "committed"
    /\ Len(deployments) = 1
    /\ deployments[1].Replicas = lastDecisions["web"].RecommendedReplicas
    /\ deployments[1].Replicas = 3
    /\ deployments[1].Annotations.lastScaled = << lastDecisions["web"].Timestamp >>
    /\ deployments[1].Annotations.scaleReason = << lastDecisions["web"].Reasoning >>

\* C25: a pass of a participating ingress calls processService for every
\* backend of the ingress in path order, whatever the calls return, and returns
\* with a requeue after 30 seconds.
C25_PassProcessesEveryBackend ==
    \A w \in Workers :
        pass[w].item # 0 =>
            /\ [k \in 1..Len(pass[w].processed) |-> pass[w].processed[k].service] \o pass[w].todo
                   = SelectSeq(ingress[pass[w].item].Backends, LAMBDA n : n # "")
            /\ ~pass[w].active => (pass[w].todo = <<>> /\ pass[w].requeueAfter = 30)

\* A pass over two backends whose first call failed and whose second call was
\* made nevertheless.
C25_Witness ==
    \E w \in Workers :
        /\ ~pass[w].active
        /\ Len(pass[w].processed) = 2
        /\ pass[w].processed[1].result \in {"find", "no_deployment", "update"}
        /\ pass[w].requeueAfter = 30

\* C26: an audit record is emitted for a committed update and for nothing else.
C26_AuditOnlyOnCommit ==
    lastCall.event <=> lastCall.result = "committed"

\* The work items in flight that still have the target to process.
InFlightOn(target) ==
    { w \in Workers : pass[w].active /\ \E k \in 1..Len(pass[w].todo) : pass[w].todo[k] = target }

\* C27: at most one work item that acts on a target is in flight at any time.
C27_OneInFlightPerTarget ==
    \A target \in Services : Cardinality(InFlightOn(target)) <= 1

\* The work item of the second ingress is in flight right after the work item
\* of the first ingress committed an update of the same target.
C27_Witness ==
    /\ lastCall.item = 1
    /\ lastCall.result = "committed"
    /\ \E w \in Workers : pass[w].active /\ pass[w].item = 2 /\ Head(pass[w].todo) = "web"

\* The step is one collection cycle whose service listing succeeded.
IsCompletedCycle == nextCollect' # nextCollect /\ cycles'[Len(cycles')].ok

\* The snapshots of a history that are inside the retention period at time t.
Fresh(history, t) ==
    SelectSeq(history, LAMBDA m : m.Timestamp > t - config.RetentionPeriod)

\* C21: a collection cycle whose service listing succeeds appends exactly one
\* snapshot, taken at the time of the cycle, to the history of every listed
\* service, whichever of the phases failed; the readings of a failed phase are
\* zero in that snapshot (the network bandwidth of a failed nginx phase unless
\* the bandwidth phase estimated it).
C21_OneSnapshotPerServiceWhateverFails ==
    [][ IsCompletedCycle =>
          \A s \in Services :
             LET m == lastAppended'[s]
                 failed == lastPhases'[s].failed
             IN  /\ s \in DOMAIN metricsStore' /\ s \in DOMAIN lastAppended'
                 /\ metricsStore'[s] = Append(Fresh(GetMetrics(metricsStore, s), now), m)
                 /\ m.Timestamp = now /\ m.ServiceName = s
                 /\ "resource" \in failed =>
                        m.CPUUtilization = 0 /\ m.MemoryUtilization = 0
                 /\ "nginx" \in failed =>
                        /\ m.RequestRate = 0 /\ m.ResponseTime = 0 /\ m.ErrorRate = 0
                        /\ ~config.EnableNetworkBandwidth => m.NetworkBandwidth = 0
                 /\ "deployment" \in failed =>
                        m.CurrentReplicas = 0 /\ m.DesiredReplicas = 0 ]_vars

\* Two cycles have stored a snapshot each; in the second one every phase that
\* can fail did, and the bandwidth phase was switched off.
C21_Witness ==
    /\ "web" \in DOMAIN metricsStore
    /\ Len(metricsStore["web"]) = 2
    /\ lastPhases["web"].failed = Phases
    /\ ~config.EnableNetworkBandwidth /\ ~config.EnableIOBandwidth
    /\ metricsStore["web"][2] = NewMetricsData("web", now)
    /\ metricsStore["web"][1].CPUUtilization > 0

\* C22: a snapshot whose nginx phase succeeded carries the network bandwidth
\* that phase set.
C22_NginxBandwidthWins ==
    \A s \in DOMAIN lastPhases :
        lastPhases[s].nginxBandwidth # <<>> =>
            lastAppended[s].NetworkBandwidth = lastPhases[s].nginxBandwidth[1]

\* The sample at position k of the training data.
SampleAt(k) == trainingData.first + k - 1

\* C28: the training data never holds more than maxSize samples, and once more
\* than maxSize have been appended it holds the last maxSize of them, oldest
\* first.
C28_BufferKeepsLatest ==
    /\ trainingData.len <= maxSize
    /\ trainingData.len = IF appended > maxSize THEN maxSize ELSE appended
    /\ trainingData.len > 0 =>
          /\ SampleAt(trainingData.len) = appended
          /\ SampleAt(1) = appended - trainingData.len + 1

\* More samples than the limit have been appended.
C28_Witness ==
    /\ appended = maxSize + retrainPeriod
    /\ trainingData.len = maxSize
    /\ SampleAt(1) = retrainPeriod + 1

\* C29: an AddTrainingData call launches a retraining exactly when online
\* learning is on and the call is the 100th, 200th, ... one.
C29_DispatchEveryHundredth ==
    appended > 0 =>
        (lastDispatch <=> (config.EnableOnlineLearning /\ appended % retrainPeriod = 0))

\* C30: a Predict call that finds the model trained works with the complete
\* weight vector of one training pass.
C30_PredictSeesCompleteWeights ==
    (observed.called /\ observed.trained) =>
        /\ Len(observed.weights) = numFeatures
        /\ observed.weights[1] # 0
        /\ \A k \in 1..numFeatures : observed.weights[k] = observed.weights[1]

\* The value LoadConfig validates: the default where the file has zero.
OrDefault(value, default) == IF value = 0 THEN default ELSE value

InUnitInterval(x) == 0 < x /\ x < 1000

\* C33 (as stated): every configuration LoadConfig returns has 1 <= min <= max,
\* rate and threshold inside (0, 1), and a file whose min is below 1, whose max
\* is below its min, or whose rate or threshold is outside (0, 1) is rejected.
C33_RejectsWhatTheFileSays ==
    loadResult.called =>
        LET f == configFile[1]
        IN  /\ loadResult.config # <<>> =>
                  LET c == loadResult.config[1]
                  IN  /\ 1 <= c.MinReplicas /\ c.MinReplicas <= c.MaxReplicas
                      /\ InUnitInterval(c.LearningRate)
                      /\ InUnitInterval(c.ConfidenceThreshold)
            /\ (\/ f.MinReplicas < 1
                 \/ f.MaxReplicas < f.MinReplicas
                 \/ ~InUnitInterval(f.LearningRate)
                 \/ ~InUnitInterval(f.ConfidenceThreshold)) => loadResult.config = <<>>

\* C33: every configuration LoadConfig returns has 1 <= min <= max, rate and
\* threshold inside (0, 1); a file is rejected exactly when, with every zero
\* value replaced by its default (1, 10, 0.01, 0.8), its min is below 1, its max
\* below its min, or its rate or threshold outside (0, 1).
C33_RejectsAfterDefaults ==
    loadResult.called =>
        LET f == configFile[1]
            min == OrDefault(f.MinReplicas, 1)
            max == OrDefault(f.MaxReplicas, 10)
            rate == OrDefault(f.LearningRate, 10)
            threshold == OrDefault(f.ConfidenceThreshold, 800)
        IN  /\ loadResult.config # <<>> =>
                  LET c == loadResult.config[1]
                  IN  /\ 1 <= c.MinReplicas /\ c.MinReplicas <= c.MaxReplicas
                      /\ InUnitInterval(c.LearningRate)
                      /\ InUnitInterval(c.ConfidenceThreshold)
                      /\ c.MinReplicas = min /\ c.MaxReplicas = max
                      /\ c.LearningRate = rate /\ c.ConfidenceThreshold = threshold
            /\ loadResult.config = <<>> <=>
                  (\/ min < 1 \/ max < min
                   \/ ~InUnitInterval(rate) \/ ~InUnitInterval(threshold))

\* A file that leaves everything at zero has been loaded with the defaults.
C33_Witness ==
    /\ loadResult.called
    /\ configFile[1].MinReplicas = 0 /\ configFile[1].LearningRate = 0
    /\ loadResult.config # <<>>
    /\ loadResult.config[1].MinReplicas = 1
    /\ loadResult.config[1].LearningRate = 10

\* The place of a deployment name in the lexicographic order of the names used.
NameRank(name) ==
    CASE name = "web-a" -> 1
      [] name = "web-b" -> 2
      [] name = "web-deploy" -> 3

\* The deployments an update has written to.
Updated == { i \in 1..Len(deployments) : deployments[i].Annotations.lastScaled # <<>> }

\* C34: a deployment that was updated for a service has the smallest name among
\* the deployments that match the service, whatever the order of the listing.
C34_SmallestNameIsUpdated ==
    \A i \in Updated :
        \A j \in 1..Len(deployments) :
            deploymentMatchesService(deployments[j], ServiceObject("web")) =>
                NameRank(deployments[i].Name) <= NameRank(deployments[j].Name)

\* C35: within one reconcile pass no backend service is processed twice.
C35_EachServiceOncePerPass ==
    \A w \in Workers :
        \A i, j \in 1..Len(pass[w].processed) :
            i # j => pass[w].processed[i].service # pass[w].processed[j].service

\* C38: a committed update that comes from a factor above 1.1 does not lower
\* the replica count the deployment has at that moment, and one that comes from
\* a factor below 0.9 does not raise it.
C38_UpdateFollowsDirection ==
    [][ (IsProcessServiceStep /\ lastCall'.result = "committed") =>
          LET key == StepService
              i == CHOOSE j \in Backing(key) : \A k \in Backing(key) : j <= k
          IN  /\ lastFactor'[key] > 1100 => deployments'[i].Replicas >= deployments[i].Replicas
              /\ lastFactor'[key] < 900 => deployments'[i].Replicas <= deployments[i].Replicas
      ]_vars

\* C39: once Start has returned, isRunning is unset.
C39_NotRunningAfterReturn ==
    (startPc = "returned" /\ ~panicked) => ~isRunning

\* C40: once Stop has been called, a collection loop that is active (the call
\* may have come before Start set isRunning) terminates.
C40_StopIsNotLost ==
    (stopRequested /\ StartInFlight) ~> (startPc = "returned")

\* C31: a Predict call on a model none of whose members is trained returns the
\* heuristic product of the feature vector with confidence 0.5, for every model
\* type.
C31_UntrainedIsHeuristicHalf ==
    (predicted.called /\ predicted.untrained) =>
        /\ ~predicted.out.err /\ ~predicted.out.panic
        /\ predicted.out.scaleFactor = heuristicPredict(predicted.features)
        /\ predicted.out.confidence = 50

\* C32: a Predict call on the neural network completes: with the heuristic
\* product before training, with confidence 0.9 after it.
C32_NeuralPredictCompletes ==
    (config.ModelType = "neural_network" /\ predicted.called) =>
        /\ ~predicted.out.err /\ ~predicted.out.panic
        /\ predicted.untrained =>
              predicted.out.scaleFactor = heuristicPredict(predicted.features)
        /\ ~predicted.untrained => predicted.out.confidence = 90

\* The members of the last ensemble call that returned no error.
Answered == { i \in 1..2 : ~ensembleCall.results[i].err }

EnsembleWeight(i) == IF i = 1 THEN 6 ELSE 4

\* C36: the ensemble's prediction fails exactly when every member returned an
\* error; otherwise factor and confidence are the weighted means over the
\* members that answered, with the weights of those members as normaliser.  The
\* ensemble's training fails exactly when every member's training failed.
C36_EnsembleSkipsErrors ==
    /\ ensembleCall.op = "predict" =>
          LET r == ensembleCall.results
              out == ensembleCall.out
              w == SumOver([i \in 1..2 |-> EnsembleWeight(i)], Answered)
          IN  /\ out.err <=> Answered = {}
              /\ ~out.err =>
                    /\ out.scaleFactor * w =
                          SumOver([i \in 1..2 |-> r[i].scaleFactor * EnsembleWeight(i)], Answered)
                    /\ out.confidence * w =
                          SumOver([i \in 1..2 |-> r[i].confidence * EnsembleWeight(i)], Answered)
    /\ ensembleCall.op = "train" =>
          (ensembleCall.out <=> (ensembleCall.results[1] /\ ensembleCall.results[2]))

\* The first member returned an error and the ensemble answered with the
\* second member's prediction.
C36_Witness ==
    /\ ensembleCall.op = "predict"
    /\ ensembleCall.results[1].err /\ ~ensembleCall.results[2].err
    /\ ensembleCall.out = Prediction(1500, 80)
    /\ ensembleCall.results[2] = Prediction(1500, 80)

\* The call of the goroutine returned a decision that changes the replica count.
ReturnedChange(c) ==
    /\ callers[c].pc = "returned"
    /\ callers[c].decision # <<>>
    /\ callers[c].decision[1].RecommendedReplicas # callers[c].decision[1].CurrentReplicas

\* C37: of two MakeScalingDecision calls for the same target made at the same
\* time, at most one returns a decision that changes the replica count.
C37_OneChangePerCooldown ==
    ~(ReturnedChange(1) /\ ReturnedChange(2))

====
